---- MODULE Spec2Model ----
(***************************************************************************)
(* A model of the estimate audit engine: the reference lookup of           *)
(* tools/db_search.py (DBSearchTool) and the deterministic calculator of   *)
(* core/calculator.py over the records of core/state.py.                   *)
(*                                                                         *)
(* Numbers.  Python floats are modelled as exact rationals, records        *)
(* [n, d] in lowest terms with d > 0; the record with d = 0 is None.       *)
(* Strings on which the code works character by character (coefficient     *)
(* ids, source_position_id) are sequences of one-character strings; the    *)
(* Cyrillic capital and small letter Ka are the tokens "cyr_K" and         *)
(* "cyr_k".  Strings the code only compares or copies are TLA+ strings.    *)
(***************************************************************************)
EXTENDS Integers, Sequences, FiniteSets, TLC

VARIABLES
    tables,     \* the "tables" collection of the reference database
    state,      \* the RowState being audited
    lookup,     \* the table and the row the last DBSearchTool._run settled on
    locals,     \* the local variables of the last run_deterministic_calculator
    outcome,    \* how the last operation ended: returned, or the error raised
    fuzz,       \* whether the import of fuzzywuzzy succeeded (else fuzz is None)
    ocr         \* the VLMOCR instance and the batch it is processing

vars == <<tables, state, lookup, locals, outcome, fuzz, ocr>>

----------------------------------------------------------------------------
(* Exact rational arithmetic standing for float arithmetic.                *)

Abs(i) == IF i < 0 THEN -i ELSE i

RECURSIVE GCD(_, _)
GCD(a, b) == IF b = 0 THEN a ELSE GCD(b, a % b)

\* n/d divided through by g, the denominator made positive.
Reduced(n, d, g) ==
    IF d < 0 THEN [n |-> -(n \div g), d |-> (-d) \div g]
    ELSE [n |-> n \div g, d |-> d \div g]

\* The rational n/d (d # 0) in lowest terms with a positive denominator.
Rat(n, d) == Reduced(n, d, GCD(Abs(n), Abs(d)))

FromInt(i) == [n |-> i, d |-> 1]

NoneNum == [n |-> 0, d |-> 0]
IsNone(v) == v.d = 0

RNeg(a) == [n |-> -a.n, d |-> a.d]

\* a + b over the common denominator l.
AddOver(a, b, l) == Rat(a.n * (l \div a.d) + b.n * (l \div b.d), l)

RAdd(a, b) == AddOver(a, b, (a.d \div GCD(a.d, b.d)) * b.d)

RSub(a, b) == RAdd(a, RNeg(b))

\* a * b with a's numerator and b's denominator divided by g1, b's numerator
\* and a's denominator by g2.
MulBy(a, b, g1, g2) ==
    [n |-> (a.n \div g1) * (b.n \div g2), d |-> (a.d \div g2) * (b.d \div g1)]

\* Cross-reduced before multiplying, which keeps lowest terms.
RMul(a, b) == MulBy(a, b, GCD(Abs(a.n), b.d), GCD(Abs(b.n), a.d))

\* a / b for b # 0.
RDiv(a, b) == RMul(a, IF b.n < 0 THEN [n |-> -b.d, d |-> -b.n]
                      ELSE [n |-> b.d, d |-> b.n])

RAbs(a) == [n |-> Abs(a.n), d |-> a.d]

RLe(a, b) == a.n * b.d <= b.n * a.d
RLt(a, b) == a.n * b.d < b.n * a.d

\* v rounded to hundredths, from the whole part q and the remainder r of |v|.
RoundParts(v, q, r) ==
    LET t1 == (r * 10) \div v.d
        r1 == (r * 10) % v.d
        t2 == (r1 * 10) \div v.d
        e  == (r1 * 10) % v.d
        c  == 10 * t1 + t2
        up == IF e > v.d - e THEN 1
              ELSE IF e = v.d - e /\ c % 2 = 1 THEN 1
              ELSE 0
        h  == q * 100 + c + up
    IN  Rat(IF v.n < 0 THEN -h ELSE h, 100)

\* round(v, 2) and the format "{:.2f}": the nearest multiple of 1/100, a tie
\* going to the even one (the result is again a rational).
Round2(v) == RoundParts(v, Abs(v.n) \div v.d, Abs(v.n) % v.d)

----------------------------------------------------------------------------
(* Strings as character sequences.                                         *)

NoneStr == <<"<None>">>

\* Python truthiness of an Optional[str]: neither None nor "".
Truthy(s) == s # NoneStr /\ s # <<>>

\* str.upper() on the characters the ids are written with.
UpperChar(c) ==
    CASE c = "k" -> "K"
      [] c = "cyr_k" -> "cyr_K"
      [] c = "s" -> "S"
      [] c = "t" -> "T"
      [] c = "a" -> "A"
      [] c = "g" -> "G"
      [] c = "e" -> "E"
      [] OTHER -> c

Upper(s) == [i \in 1..Len(s) |-> UpperChar(s[i])]

Digits == <<"0", "1", "2", "3", "4", "5", "6", "7", "8", "9">>

IsDigitChar(c) == \E i \in 1..10 : Digits[i] = c

DigitValue(c) == (CHOOSE i \in 1..10 : Digits[i] = c) - 1

\* str.isdigit(): non-empty and every character a digit.
IsDigit(s) == Len(s) > 0 /\ \A i \in 1..Len(s) : IsDigitChar(s[i])

\* int(s) for a string of digits.
RECURSIVE ToInt(_)
ToInt(s) ==
    IF Len(s) = 0 THEN 0
    ELSE 10 * ToInt(SubSeq(s, 1, Len(s) - 1)) + DigitValue(s[Len(s)])

\* s.split(sep): the parts between the separators, as a sequence of strings.
RECURSIVE Split(_, _)
Split(s, sep) ==
    IF \A i \in 1..Len(s) : s[i] # sep THEN <<s>>
    ELSE LET k == CHOOSE i \in 1..Len(s) :
                      s[i] = sep /\ \A j \in 1..(i - 1) : s[j] # sep
         IN  <<SubSeq(s, 1, k - 1)>> \o Split(SubSeq(s, k + 1, Len(s)), sep)

----------------------------------------------------------------------------
(* core/state.py: the records.                                             *)

NoneRecord == [none |-> TRUE]

CoefficientData(id, value, reason) ==
    [id |-> id, value |-> value, reason |-> reason]

\* CoefficientData.is_valid
is_valid(coef) ==
    ~IsNone(coef.value)
    /\ RLe(Rat(1, 10), coef.value) /\ RLe(coef.value, FromInt(10))

\* AuditVerdict(): the defaults of a fresh verdict.
DefaultVerdict ==
    [calculated_total |-> NoneNum,
     is_approved |-> FALSE,
     reason |-> [text |-> "<None>", args |-> <<>>],
     discrepancies |-> <<>>,
     calculation_breakdown |-> NoneRecord]

\* RowState(id=...): raw_input and reference_data absent, a fresh verdict.
NewRowState(id) ==
    [id |-> id,
     raw_input |-> NoneRecord,
     reference_data |-> NoneRecord,
     audit_verdict |-> DefaultVerdict]

Discrepancy(type, severity, message, details) ==
    [type |-> type, severity |-> severity, message |-> message,
     details |-> details]

----------------------------------------------------------------------------
(* core/calculator.py                                                      *)

Returned(v) == [raised |-> FALSE, value |-> v]
Raised(kind, message) == [raised |-> TRUE, kind |-> kind, message |-> message]

\* _compute_base: the base cost under the reference's formula strategy.
compute_base_weights_swapped(reference, x_given) ==
    LET a == reference.ref_A
        b == reference.ref_B
        strategy == reference.formula_strategy
    IN  IF strategy = "standard"
        THEN Returned(RAdd(a, RMul(b, x_given)))
        ELSE IF strategy = "extrapolation_above"
        THEN Returned(RAdd(a, RMul(b,
                 RAdd(RMul(Rat(6, 10), reference.range_max),
                      RMul(Rat(4, 10), x_given)))))
        ELSE IF strategy = "extrapolation_below"
        THEN Returned(RAdd(a, RMul(b,
                 RAdd(RMul(Rat(4, 10), reference.range_min),
                      RMul(Rat(6, 10), x_given)))))
        ELSE Raised("ValueError",
                    [text |-> "Unknown formula strategy", strategy |-> strategy])

\* A variant whose standard formula subtracts the quantity term.
compute_base_decreasing(reference, x_given) ==
    LET a == reference.ref_A
        b == reference.ref_B
        strategy == reference.formula_strategy
    IN  IF strategy = "standard"
        THEN Returned(RSub(a, RMul(b, x_given)))
        ELSE IF strategy = "extrapolation_above"
        THEN Returned(RAdd(a, RMul(b,
                 RAdd(RMul(Rat(4, 10), reference.range_max),
                      RMul(Rat(6, 10), x_given)))))
        ELSE IF strategy = "extrapolation_below"
        THEN Returned(RAdd(a, RMul(b,
                 RAdd(RMul(Rat(6, 10), reference.range_min),
                      RMul(Rat(4, 10), x_given)))))
        ELSE Raised("ValueError",
                    [text |-> "Unknown formula strategy", strategy |-> strategy])

\* A variant whose blend weights do not add up to one.
compute_base_weights_short(reference, x_given) ==
    LET a == reference.ref_A
        b == reference.ref_B
        strategy == reference.formula_strategy
    IN  IF strategy = "standard"
        THEN Returned(RAdd(a, RMul(b, x_given)))
        ELSE IF strategy = "extrapolation_above"
        THEN Returned(RAdd(a, RMul(b,
                 RAdd(RMul(Rat(4, 10), reference.range_max),
                      RMul(Rat(5, 10), x_given)))))
        ELSE IF strategy = "extrapolation_below"
        THEN Returned(RAdd(a, RMul(b,
                 RAdd(RMul(Rat(5, 10), reference.range_min),
                      RMul(Rat(4, 10), x_given)))))
        ELSE Raised("ValueError",
                    [text |-> "Unknown formula strategy", strategy |-> strategy])

compute_base(reference, x_given) ==
    LET a == reference.ref_A
        b == reference.ref_B
        strategy == reference.formula_strategy
    IN  IF strategy = "standard"
        THEN Returned(RAdd(a, RMul(b, x_given)))
        ELSE IF strategy = "extrapolation_above"
        THEN Returned(RAdd(a, RMul(b,
                 RAdd(RMul(Rat(4, 10), reference.range_max),
                      RMul(Rat(6, 10), x_given)))))
        ELSE IF strategy = "extrapolation_below"
        THEN Returned(RAdd(a, RMul(b,
                 RAdd(RMul(Rat(6, 10), reference.range_min),
                      RMul(Rat(4, 10), x_given)))))
        ELSE Raised("ValueError",
                    [text |-> "Unknown formula strategy", strategy |-> strategy])

\* The bounds test on a value that is present: 0.1 <= value <= 10.0.
in_bounds_open_above(value) == RLe(Rat(1, 10), value)

in_bounds(value) == RLe(Rat(1, 10), value) /\ RLe(value, FromInt(10))

\* coef.id and coef.id.upper() in ['K1', 'K2', (Cyrillic) 'K1', 'K2'].
is_stage_id_as_written(id) ==
    Truthy(id)
    /\ id \in {<<"K", "1">>, <<"K", "2">>, <<"cyr_K", "1">>, <<"cyr_K", "2">>}

is_stage_id(id) ==
    Truthy(id)
    /\ Upper(id) \in {<<"K", "1">>, <<"K", "2">>,
                      <<"cyr_K", "1">>, <<"cyr_K", "2">>}

\* The reference-side loop: a coefficient is kept when its value is present
\* and within the bounds.
keep_reference_coef(coef) == ~IsNone(coef.value) /\ in_bounds(coef.value)

\* The claim-side loop: a missing value, then a stage id, skip the
\* coefficient; otherwise it is kept when within the bounds.
keep_claimed_coef(coef) ==
    IF IsNone(coef.value) THEN FALSE
    ELSE IF is_stage_id(coef.id) THEN FALSE
    ELSE in_bounds(coef.value)

\* all_coefficients: the kept reference coefficients, then the kept claimed
\* ones, each list in its order.
collect_coefficients(reference, raw_input) ==
    SelectSeq(reference.valid_coefficients, keep_reference_coef)
    \o SelectSeq(raw_input.claimed_coefficients, keep_claimed_coef)

\* math.prod over the values (1 for the empty list).
RECURSIVE prod(_)
prod(coefs) ==
    IF Len(coefs) = 0 THEN FromInt(1)
    ELSE RMul(coefs[1].value, prod(Tail(coefs)))

\* k_total = prod(...) if all_coefficients else 1.0
total_multiplier_zero_when_empty(all_coefficients) ==
    IF Len(all_coefficients) > 0 THEN prod(all_coefficients) ELSE FromInt(0)

total_multiplier(all_coefficients) ==
    IF Len(all_coefficients) > 0 THEN prod(all_coefficients) ELSE FromInt(1)

\* _coeff_product: the same selection and product, as a function of its own.
coeff_product(reference, raw_input) ==
    LET from_db == SelectSeq(reference.valid_coefficients, keep_reference_coef)
        from_claim ==
            IF raw_input # NoneRecord
            THEN SelectSeq(raw_input.claimed_coefficients, keep_claimed_coef)
            ELSE <<>>
        all_coefficients == from_db \o from_claim
    IN  IF Len(all_coefficients) = 0 THEN FromInt(1)
        ELSE prod(all_coefficients)

\* claimed_in_thousands: a claimed total above 1,000,000 is taken to be in
\* base units and divided by 1000.
normalize_claimed_from_million(claimed_total) ==
    IF RLe(FromInt(1000000), claimed_total)
    THEN RDiv(claimed_total, FromInt(1000))
    ELSE claimed_total

normalize_claimed(claimed_total) ==
    IF RLt(FromInt(1000000), claimed_total)
    THEN RDiv(claimed_total, FromInt(1000))
    ELSE claimed_total

\* delta_percent = (delta / claimed * 100) if claimed > 0 else 0
deviation_percent_full_when_zero(delta, claimed_in_thousands) ==
    IF RLt(FromInt(0), claimed_in_thousands)
    THEN RMul(RDiv(delta, claimed_in_thousands), FromInt(100))
    ELSE FromInt(100)

deviation_percent(delta, claimed_in_thousands) ==
    IF RLt(FromInt(0), claimed_in_thousands)
    THEN RMul(RDiv(delta, claimed_in_thousands), FromInt(100))
    ELSE FromInt(0)

\* is_approved = delta_percent <= 5.0
approval_strict(delta_percent) == RLt(delta_percent, FromInt(5))

approval(delta_percent) == RLe(delta_percent, FromInt(5))

\* A variant whose approved text is formatted with the tolerance of 5%.
make_reason_with_tolerance(is_approved, delta, delta_percent) ==
    IF is_approved
    THEN [text |-> "Match within {:.2f}% tolerance",
          args |-> <<FromInt(5)>>]
    ELSE [text |-> "Deviation {:.2f} thousand tenge ({:.2f}%)",
          args |-> <<Round2(delta), Round2(delta_percent)>>]

\* reason: the text and the numbers formatted into it.
make_reason(is_approved, delta, delta_percent) ==
    IF is_approved
    THEN [text |-> "Match within {:.2f}% tolerance",
          args |-> <<Round2(delta_percent)>>]
    ELSE [text |-> "Deviation {:.2f} thousand tenge ({:.2f}%)",
          args |-> <<Round2(delta), Round2(delta_percent)>>]

\* The provenance year of source_position_id: the last '-' separated part
\* when there are at least five parts and it is four digits; else none (-1).
source_year_any_length(source_position_id) ==
    IF ~Truthy(source_position_id) THEN -1
    ELSE LET parts == Split(source_position_id, "-")
             last  == parts[Len(parts)]
         IN  IF IsDigit(last) /\ Len(last) = 4
             THEN ToInt(last)
             ELSE -1

source_year(source_position_id) ==
    IF ~Truthy(source_position_id) THEN -1
    ELSE LET parts == Split(source_position_id, "-")
             last  == parts[Len(parts)]
         IN  IF Len(parts) >= 5 /\ IsDigit(last) /\ Len(last) = 4
             THEN ToInt(last)
             ELSE -1

\* 1. the year check
year_discrepancies(st) ==
    LET claimed_year == st.raw_input.year
        db_year == source_year(st.reference_data.source_position_id)
    IN  IF db_year # -1 /\ claimed_year # db_year
        THEN <<Discrepancy("year_mismatch", "critical",
                   [text |-> "wrong edition year", args |-> <<claimed_year, db_year>>],
                   [claimed_year |-> claimed_year,
                    correct_year |-> db_year,
                    source_table |-> st.raw_input.table_code_claimed])>>
        ELSE <<>>

\* 2. the constants check
constant_discrepancies_from_5(st, delta_percent) ==
    IF RLe(FromInt(5), delta_percent)
    THEN <<Discrepancy("constant_mismatch", "critical",
               [text |-> "wrong cost constants",
                args |-> <<Round2(st.reference_data.ref_A),
                           Round2(st.reference_data.ref_B)>>],
               [ref_A |-> st.reference_data.ref_A,
                ref_B |-> st.reference_data.ref_B,
                table_code |-> st.raw_input.table_code_claimed,
                position |-> st.raw_input.position_number])>>
    ELSE <<>>

constant_discrepancies(st, delta_percent) ==
    IF RLt(FromInt(5), delta_percent)
    THEN <<Discrepancy("constant_mismatch", "critical",
               [text |-> "wrong cost constants",
                args |-> <<Round2(st.reference_data.ref_A),
                           Round2(st.reference_data.ref_B)>>],
               [ref_A |-> st.reference_data.ref_A,
                ref_B |-> st.reference_data.ref_B,
                table_code |-> st.raw_input.table_code_claimed,
                position |-> st.raw_input.position_number])>>
    ELSE <<>>

\* claimed_coeffs of the coefficient check: value present, id truthy and not
\* a stage id.
is_checked_coef(coef) ==
    ~IsNone(coef.value) /\ Truthy(coef.id) /\ ~is_stage_id(coef.id)

\* coef.value and (coef.value < 0.5 or coef.value > 3.0)
is_unusual(value) ==
    value.n # 0 /\ (RLt(value, Rat(1, 2)) \/ RLt(FromInt(3), value))

RECURSIVE unusual_of(_)
unusual_of(coefs) ==
    IF Len(coefs) = 0 THEN <<>>
    ELSE (IF is_unusual(coefs[1].value)
          THEN <<Discrepancy("coefficient_unusual", "warning",
                     [text |-> "unusual coefficient",
                      args |-> <<coefs[1].id, coefs[1].value>>],
                     [coefficient_id |-> coefs[1].id,
                      value |-> coefs[1].value,
                      reason |-> coefs[1].reason])>>
          ELSE <<>>)
         \o unusual_of(Tail(coefs))

\* 3. the coefficient check
coefficient_discrepancies(st) ==
    unusual_of(SelectSeq(st.raw_input.claimed_coefficients, is_checked_coef))

\* 4. the range check
range_discrepancies_closed_out(st) ==
    LET x_given == st.raw_input.X_claimed
        range_min == st.reference_data.range_min
        range_max == st.reference_data.range_max
    IN  IF RLe(x_given, range_min) \/ RLe(range_max, x_given)
        THEN <<Discrepancy("value_out_of_range", "warning",
                   [text |-> "X outside the reference range",
                    args |-> <<Round2(x_given), Round2(range_min),
                               Round2(range_max)>>],
                   [X_claimed |-> x_given,
                    range_min |-> range_min,
                    range_max |-> range_max,
                    extrapolation_used |-> st.reference_data.formula_strategy])>>
        ELSE <<>>

range_discrepancies(st) ==
    LET x_given == st.raw_input.X_claimed
        range_min == st.reference_data.range_min
        range_max == st.reference_data.range_max
    IN  IF RLt(x_given, range_min) \/ RLt(range_max, x_given)
        THEN <<Discrepancy("value_out_of_range", "warning",
                   [text |-> "X outside the reference range",
                    args |-> <<Round2(x_given), Round2(range_min),
                               Round2(range_max)>>],
                   [X_claimed |-> x_given,
                    range_min |-> range_min,
                    range_max |-> range_max,
                    extrapolation_used |-> st.reference_data.formula_strategy])>>
        ELSE <<>>

\* 5. the deviation check
deviation_discrepancies(calculated_total, claimed_in_thousands, delta_percent) ==
    IF RLt(FromInt(5), delta_percent)
    THEN LET delta == RAbs(RSub(calculated_total, claimed_in_thousands))
         IN  <<Discrepancy("calculation_deviation", "critical",
                   [text |-> "significant deviation, allowed <=5%",
                    args |-> <<Round2(delta), Round2(delta_percent)>>],
                   [calculated |-> calculated_total,
                    claimed |-> claimed_in_thousands,
                    deviation_amount |-> delta,
                    deviation_percent |-> delta_percent,
                    tolerance |-> FromInt(5)])>>
    ELSE <<>>

\* _detect_discrepancies: the five checks in order.
detect_discrepancies(st, base, calculated_total, claimed_in_thousands, all_coefficients, delta_percent) ==
    year_discrepancies(st)
    \o constant_discrepancies(st, delta_percent)
    \o coefficient_discrepancies(st)
    \o range_discrepancies(st)
    \o deviation_discrepancies(calculated_total, claimed_in_thousands,
                               delta_percent)

\* One entry of coefficients_applied.
applied_entry(coef) ==
    [id |-> IF Truthy(coef.id) THEN coef.id ELSE <<"K">>,
     value |-> coef.value,
     reason |-> IF coef.reason # "<None>" /\ coef.reason # ""
                THEN coef.reason ELSE "coefficient from the estimate"]

\* _build_calculation_breakdown
build_calculation_breakdown_all_stated(base, all_coefficients, calculated_total, st) ==
    LET stated == st.reference_data.valid_coefficients
                      \o st.raw_input.claimed_coefficients
        coeffs_applied ==
            [i \in 1..Len(stated) |-> applied_entry(stated[i])]
    IN  [base_cost |-> Round2(base),
         coefficients_applied |-> coeffs_applied,
         final_cost |-> Round2(calculated_total),
         formula_used |->
             [a |-> Round2(st.reference_data.ref_A),
              b |-> Round2(st.reference_data.ref_B),
              x |-> Round2(st.raw_input.X_claimed),
              coeffs |-> <<>>,
              total |-> Round2(calculated_total)]]

build_calculation_breakdown(base, all_coefficients, calculated_total, st) ==
    LET coeffs_applied ==
            [i \in 1..Len(all_coefficients) |-> applied_entry(all_coefficients[i])]
    IN  [base_cost |-> Round2(base),
         coefficients_applied |-> coeffs_applied,
         final_cost |-> Round2(calculated_total),
         formula_used |->
             [a |-> Round2(st.reference_data.ref_A),
              b |-> Round2(st.reference_data.ref_B),
              x |-> Round2(st.raw_input.X_claimed),
              coeffs |-> [i \in 1..Len(coeffs_applied) |->
                             Round2(coeffs_applied[i].value)],
              total |-> Round2(calculated_total)]]

\* The comparison: delta, delta_percent and is_approved.
compare_locals(base, all_coefficients, k_total, calculated_total, claimed_in_thousands, delta) ==
    [base |-> base,
     all_coefficients |-> all_coefficients,
     k_total |-> k_total,
     calculated_total |-> calculated_total,
     claimed_in_thousands |-> claimed_in_thousands,
     delta |-> delta,
     delta_percent |-> deviation_percent(delta, claimed_in_thousands),
     is_approved |-> approval(deviation_percent(delta, claimed_in_thousands))]

\* calculated_total = base * k_total, the normalized claim and their distance.
total_locals(base, all_coefficients, k_total, calculated_total, claimed_in_thousands) ==
    compare_locals(base, all_coefficients, k_total, calculated_total,
                   claimed_in_thousands,
                   RAbs(RSub(calculated_total, claimed_in_thousands)))

multiplier_locals(base, all_coefficients, k_total, claimed_total) ==
    total_locals(base, all_coefficients, k_total, RMul(base, k_total),
                 normalize_claimed(claimed_total))

\* The local variables of a run that got past _compute_base with base.
calculator_locals(st, base) ==
    multiplier_locals(base,
        collect_coefficients(st.reference_data, st.raw_input),
        total_multiplier(collect_coefficients(st.reference_data, st.raw_input)),
        st.raw_input.total_claimed)

\* A variant that appends the new discrepancies to those already recorded.
verdict_of_accumulating(st, l) ==
    [calculated_total |-> Round2(l.calculated_total),
     is_approved |-> l.is_approved,
     reason |-> make_reason(l.is_approved, l.delta, l.delta_percent),
     discrepancies |->
         st.audit_verdict.discrepancies \o
         detect_discrepancies(st, l.base, l.calculated_total,
                              l.claimed_in_thousands, l.all_coefficients,
                              l.delta_percent),
     calculation_breakdown |->
         build_calculation_breakdown(l.base, l.all_coefficients,
                                     l.calculated_total, st)]

\* The verdict written at the end of a run, from its local variables.
verdict_of(st, l) ==
    [calculated_total |-> Round2(l.calculated_total),
     is_approved |-> l.is_approved,
     reason |-> make_reason(l.is_approved, l.delta, l.delta_percent),
     discrepancies |->
         detect_discrepancies(st, l.base, l.calculated_total,
                              l.claimed_in_thousands, l.all_coefficients,
                              l.delta_percent),
     calculation_breakdown |->
         build_calculation_breakdown(l.base, l.all_coefficients,
                                     l.calculated_total, st)]

\* A variant that returns the claim with only the multiplied coefficients.
calculator_return_pruning(st, l) ==
    [raised |-> FALSE, kind |-> "", message |-> [text |-> ""],
     state |-> [st EXCEPT !.audit_verdict = verdict_of(st, l),
                          !.raw_input.claimed_coefficients =
                              SelectSeq(st.raw_input.claimed_coefficients,
                                        keep_claimed_coef)],
     locals |-> l]

\* The return of a run: the state with its verdict rewritten.
calculator_return(st, l) ==
    [raised |-> FALSE, kind |-> "", message |-> [text |-> ""],
     state |-> [st EXCEPT !.audit_verdict = verdict_of(st, l)],
     locals |-> l]

\* A variant in which a raising run leaves a cleared verdict behind.
calculator_raise_clearing(st, text) ==
    [raised |-> TRUE, kind |-> "ValueError", message |-> text,
     state |-> [st EXCEPT !.audit_verdict = DefaultVerdict],
     locals |-> NoneRecord]

calculator_raise(st, text) ==
    [raised |-> TRUE, kind |-> "ValueError", message |-> text,
     state |-> st, locals |-> NoneRecord]

\* The run from _compute_base on.
calculator_body(st, base) ==
    IF base.raised THEN calculator_raise(st, base.message)
    ELSE calculator_return(st, calculator_locals(st, base.value))

\* A variant that approves by the tolerance argument.
run_deterministic_calculator_tolerant(st, tolerance) ==
    IF st.raw_input = NoneRecord
    THEN calculator_raise(st, [text |-> "RowState.raw_input is empty"])
    ELSE IF st.reference_data = NoneRecord
    THEN calculator_raise(st, [text |-> "RowState.reference_data is empty"])
    ELSE LET r == calculator_body(st, compute_base(st.reference_data,
                                                   st.raw_input.X_claimed))
         IN  IF r.raised THEN r
             ELSE [r EXCEPT !.state.audit_verdict.is_approved =
                                RLe(r.locals.delta_percent, tolerance)]

\* run_deterministic_calculator(state, tolerance): raises when raw_input or
\* reference_data is missing or the strategy is unknown; otherwise returns
\* the state with its verdict rewritten.  The result carries the state as
\* the call leaves it and, when it returned, the run's local variables.
run_deterministic_calculator(st, tolerance) ==
    IF st.raw_input = NoneRecord
    THEN calculator_raise(st, [text |-> "RowState.raw_input is empty"])
    ELSE IF st.reference_data = NoneRecord
    THEN calculator_raise(st, [text |-> "RowState.reference_data is empty"])
    ELSE calculator_body(st, compute_base(st.reference_data,
                                          st.raw_input.X_claimed))

----------------------------------------------------------------------------
(* tools/db_search.py                                                      *)

\* The documents of the collection matching a table code.
with_code(docs, table_code) == {t \in docs : t.table_code = table_code}

\* find_one({"table_code": ..., "year": ...}): the document, or none.
find_one(docs, table_code, year) ==
    LET hits == {t \in docs : t.table_code = table_code /\ t.year = year}
    IN  IF hits = {} THEN NoneRecord ELSE CHOOSE t \in hits : TRUE

\* find(...).sort("year", -1).limit(n): the years of the first n documents
\* in descending order of year.
RECURSIVE years_descending(_, _)
years_descending(docs, n) ==
    IF n = 0 \/ docs = {} THEN <<>>
    ELSE LET top == CHOOSE t \in docs : \A u \in docs : u.year <= t.year
         IN  <<top.year>> \o years_descending(docs \ {top}, n - 1)

\* max(available_years) of a non-empty list.
max_year_oldest(years) ==
    CHOOSE y \in {years[i] : i \in 1..Len(years)} :
        \A i \in 1..Len(years) : y <= years[i]

max_year(years) ==
    CHOOSE y \in {years[i] : i \in 1..Len(years)} :
        \A i \in 1..Len(years) : years[i] <= y

\* The document _find_section settles on: the one of the requested year,
\* else the one of the latest year among the first five in descending order,
\* else none.
select_table(docs, table_code, year) ==
    LET result == find_one(docs, table_code, year)
    IN  IF result # NoneRecord THEN result
        ELSE LET available_years ==
                     years_descending(with_code(docs, table_code), 5)
             IN  IF Len(available_years) > 0
                 THEN find_one(docs, table_code, max_year(available_years))
                 ELSE NoneRecord

\* _find_section: the table data, or the error raised.
find_section(docs, table_code, year) ==
    LET result == select_table(docs, table_code, year)
    IN  IF result = NoneRecord
        THEN Raised("ValueError",
                    [text |-> "No table found in SCP reference for code",
                     table_code |-> table_code])
        ELSE IF Len(result.positions) = 0
        THEN Raised("ValueError",
                    [text |-> "Table has no configured positions",
                     table_code |-> table_code])
        ELSE Returned([code |-> table_code,
                       name_ru |-> result.name_ru,
                       rows |-> result.positions,
                       table |-> result])

\* The loop of _match_row_by_position: the index of the first row that is
\* not a subtitle and carries the requested number, 0 when there is none.
first_matching_row_with_subtitles(rows, position_number) ==
    LET hits == {i \in 1..Len(rows) : rows[i].position_number = position_number}
    IN  IF hits = {} THEN 0
        ELSE CHOOSE i \in hits : \A j \in hits : i <= j

first_matching_row(rows, position_number) ==
    LET hits == {i \in 1..Len(rows) :
                     ~rows[i].is_subtitle
                     /\ rows[i].position_number = position_number}
    IN  IF hits = {} THEN 0
        ELSE CHOOSE i \in hits : \A j \in hits : i <= j

\* _match_row_by_position
match_row_by_position(table_data, position_number) ==
    LET rows == table_data.rows
        k == first_matching_row(rows, position_number)
    IN  IF Len(rows) = 0
        THEN Raised("ValueError",
                    [text |-> "No positions found for table",
                     table_code |-> table_data.code])
        ELSE IF k # 0 THEN Returned(rows[k])
        ELSE Raised("ValueError",
                    [text |-> "Position not found in table. Check position number in Smeta.",
                     position_number |-> position_number,
                     table_code |-> table_data.code])

\* str.lower() on the tags and condition texts the model uses.
Lower(text) ==
    CASE text = "Seismic" -> "seismic"
      [] text = "Seismicity 7 points" -> "seismicity 7 points"
      [] text = "Permafrost soils" -> "permafrost soils"
      [] OTHER -> text

\* fuzz.partial_ratio(tag, condition), on a scale of 0 to 100, for the
\* lowered tags and condition texts the model uses.
partial_ratio(tag, condition) ==
    CASE tag = "seismic" /\ condition = "seismicity 7 points" -> 100
      [] tag = "frost" /\ condition = "permafrost soils" -> 100
      [] tag = "soil" /\ condition = "permafrost soils" -> 100
      [] tag = "seismic" /\ condition = "permafrost soils" -> 50
      [] tag = "frost" /\ condition = "seismicity 7 points" -> 40
      [] tag = "seismicity thawed" /\ condition = "seismicity 7 points" -> 65
      [] tag = "seismicity thawed" /\ condition = "permafrost soils" -> 19
      [] tag = "seismic points" /\ condition = "seismicity 7 points" -> 64
      [] tag = "seismic points" /\ condition = "permafrost soils" -> 45
      [] OTHER -> 0

\* tag in condition: the tag is a substring of the condition text.
is_part_of(tag, condition) ==
    \/ tag = "seismic" /\ condition = "seismicity 7 points"
    \/ tag = "frost" /\ condition = "permafrost soils"
    \/ tag = "soil" /\ condition = "permafrost soils"

condition_matches_above_65(condition, lowered_tags) ==
    \E i \in 1..Len(lowered_tags) :
        IF fuzz THEN partial_ratio(lowered_tags[i], condition) > 65
        ELSE is_part_of(lowered_tags[i], condition)

\* _condition_matches: with fuzzywuzzy some tag scores at least 65 against
\* the condition; without it some tag is a substring of the condition.
condition_matches(condition, lowered_tags) ==
    \E i \in 1..Len(lowered_tags) :
        IF fuzz THEN partial_ratio(lowered_tags[i], condition) >= 65
        ELSE is_part_of(lowered_tags[i], condition)

\* The "coefficients" collection of the reference database.
CoefficientDocs ==
    <<[id |-> <<"c", "1">>, codes |-> {"T-7"},
       condition_full |-> "Seismicity 7 points", coefficient_value |-> Rat(12, 10)],
      [id |-> <<"c", "2">>, codes |-> {"T-7", "T-9"},
       condition_full |-> "Permafrost soils", coefficient_value |-> Rat(15, 10)],
      [id |-> <<"c", "3">>, codes |-> {"T-9"},
       condition_full |-> "Seismicity 7 points", coefficient_value |-> Rat(13, 10)],
      [id |-> <<"c", "4">>, codes |-> {"T-7"},
       condition_full |-> "", coefficient_value |-> Rat(2, 1)]>>

is_applicable_to(coef, table_code) == table_code \in coef.codes

RECURSIVE matched_of(_, _)
matched_of(coefs, lowered_tags) ==
    IF Len(coefs) = 0 THEN <<>>
    ELSE LET coef == coefs[1]
             condition == Lower(coef.condition_full)
         IN  (IF condition # "" /\ condition_matches(condition, lowered_tags)
              THEN <<CoefficientData(coef.id, coef.coefficient_value,
                                     coef.condition_full)>>
              ELSE <<>>)
             \o matched_of(Tail(coefs), lowered_tags)

\* _match_coefficients
match_coefficients(table_code, extracted_tags) ==
    IF Len(extracted_tags) = 0 THEN <<>>
    ELSE LET coefficients ==
                 SelectSeq(CoefficientDocs,
                           LAMBDA c : is_applicable_to(c, table_code))
             lowered_tags ==
                 [i \in 1..Len(extracted_tags) |-> Lower(extracted_tags[i])]
         IN  matched_of(coefficients, lowered_tags)

\* The stage coefficients _run appends: k2 when present and not 1.0; k1 when
\* present and not 1.0 and k2 is absent.
stage_coefficients_both(k1, k2) ==
    (IF ~IsNone(k2) /\ k2 # FromInt(1)
     THEN <<CoefficientData(<<"k", "2", "_", "s", "t", "a", "g", "e">>, k2,
                            "stage coefficient K2")>>
     ELSE <<>>)
    \o (IF ~IsNone(k1) /\ k1 # FromInt(1)
        THEN <<CoefficientData(<<"k", "1", "_", "s", "t", "a", "g", "e">>, k1,
                               "stage coefficient K1")>>
        ELSE <<>>)

stage_coefficients(k1, k2) ==
    (IF ~IsNone(k2) /\ k2 # FromInt(1)
     THEN <<CoefficientData(<<"k", "2", "_", "s", "t", "a", "g", "e">>, k2,
                            "stage coefficient K2")>>
     ELSE <<>>)
    \o (IF ~IsNone(k1) /\ k1 # FromInt(1) /\ IsNone(k2)
        THEN <<CoefficientData(<<"k", "1", "_", "s", "t", "a", "g", "e">>, k1,
                               "stage coefficient K1")>>
        ELSE <<>>)

\* The dictionary _run returns for the matched row: the ReferenceData.
reference_of_row_range(matching_row, coefficients) ==
    [ref_A |-> IF ~IsNone(matching_row.param_a)
               THEN matching_row.param_a ELSE FromInt(0),
     ref_B |-> IF ~IsNone(matching_row.param_b)
               THEN matching_row.param_b ELSE FromInt(0),
     range_min |-> FromInt(matching_row.range[1]),
     range_max |-> FromInt(matching_row.range[2]),
     formula_strategy |-> "standard",
     valid_coefficients |->
         coefficients \o stage_coefficients(matching_row.k1, matching_row.k2),
     source_position_id |-> matching_row.position_id]

reference_of(matching_row, coefficients) ==
    [ref_A |-> IF ~IsNone(matching_row.param_a)
               THEN matching_row.param_a ELSE FromInt(0),
     ref_B |-> IF ~IsNone(matching_row.param_b)
               THEN matching_row.param_b ELSE FromInt(0),
     range_min |-> FromInt(0),
     range_max |-> FromInt(999999),
     formula_strategy |-> "standard",
     valid_coefficients |->
         coefficients \o stage_coefficients(matching_row.k1, matching_row.k2),
     source_position_id |-> matching_row.position_id]

\* DBSearchTool._run: the reference data, or the error of the table or the
\* position lookup.  The result also carries the table and row found.
run(docs, table_code_claimed, position_number, x_claimed, year, extracted_tags) ==
    LET table_data == find_section(docs, table_code_claimed, year)
    IN  IF table_data.raised
        THEN [raised |-> TRUE, kind |-> table_data.kind,
              message |-> table_data.message,
              table |-> NoneRecord, row |-> NoneRecord]
        ELSE LET matching_row ==
                     match_row_by_position(table_data.value, position_number)
             IN  IF matching_row.raised
                 THEN [raised |-> TRUE, kind |-> matching_row.kind,
                       message |-> matching_row.message,
                       table |-> table_data.value.table, row |-> NoneRecord]
                 ELSE [raised |-> FALSE, kind |-> "", message |-> [text |-> ""],
                       table |-> table_data.value.table,
                       row |-> matching_row.value,
                       value |-> reference_of(matching_row.value,
                                     match_coefficients(table_code_claimed,
                                                        extracted_tags))]

----------------------------------------------------------------------------
(* The inputs: the records a caller builds, drawn from small sets.         *)

MaxClaimed == 2

\* The sequences over a pool of length at most n.
ListsUpTo(pool, n) == UNION {[1..k -> pool] : k \in 0..n}

RawInput(code, position, x, total, year, coefs, tags) ==
    [text_description |-> "estimate row",
     table_code_claimed |-> code,
     position_number |-> position,
     X_claimed |-> x,
     total_claimed |-> total,
     year |-> year,
     claimed_coefficients |-> coefs,
     extracted_tags |-> tags]

ReferenceData(a, b, lo, hi, strategy, coefs, source) ==
    [ref_A |-> a, ref_B |-> b, range_min |-> lo, range_max |-> hi,
     formula_strategy |-> strategy, valid_coefficients |-> coefs,
     source_position_id |-> source]

\* Coefficients that are combined in lists: a stage id, a plain one, one on
\* the upper bound, one above it.
CorePool ==
    {CoefficientData(<<"k", "1">>, FromInt(2), "stage"),
     CoefficientData(<<"K", "3">>, Rat(12, 10), "<None>"),
     CoefficientData(<<"K", "4">>, FromInt(10), "complexity"),
     CoefficientData(<<"K", "6">>, FromInt(15), "<None>")}

\* Coefficients as an estimate states them: the stage ids in Latin and
\* Cyrillic, upper and lower case; other ids; no id; values missing, zero,
\* below, on and above the bounds.
ClaimedPool ==
    CorePool \cup
    {CoefficientData(<<"K", "2">>, Rat(12, 10), "<None>"),
     CoefficientData(<<"cyr_K", "1">>, Rat(12, 10), "<None>"),
     CoefficientData(<<"cyr_k", "2">>, FromInt(3), "<None>"),
     CoefficientData(<<"K", "5">>, Rat(1, 10), "<None>"),
     CoefficientData(<<"K", "7">>, NoneNum, "<None>"),
     CoefficientData(<<"K", "8">>, Rat(1, 20), "<None>"),
     CoefficientData(<<"K", "9">>, FromInt(0), "<None>"),
     CoefficientData(NoneStr, Rat(1, 2), "<None>")}

\* claimed_coefficients: any single coefficient, and the lists over the
\* core coefficients.
ClaimedLists == ListsUpTo(ClaimedPool, 1) \cup ListsUpTo(CorePool, MaxClaimed)

\* valid_coefficients of a reference record.
ReferenceLists ==
    {<<>>,
     <<CoefficientData(<<"k", "2", "_", "s", "t", "a", "g", "e">>, Rat(12, 10),
                       "stage coefficient K2")>>,
     <<CoefficientData(<<"c", "1">>, FromInt(15), "Seismicity 7 points")>>,
     <<CoefficientData(<<"c", "2">>, NoneNum, "<None>"),
       CoefficientData(<<"k", "2", "_", "s", "t", "a", "g", "e">>, Rat(12, 10),
                       "stage coefficient K2")>>}

Quantities == {FromInt(5), FromInt(10), FromInt(100), FromInt(200)}

ClaimedTotals == {FromInt(0), FromInt(100), FromInt(1000000), FromInt(1000500)}

Strategies == {"standard", "extrapolation_above", "extrapolation_below", "linear"}

YearChars(year) ==
    CASE year = 2022 -> <<"2", "0", "2", "2">>
      [] year = 2023 -> <<"2", "0", "2", "3">>
      [] year = 2024 -> <<"2", "0", "2", "4">>
      [] year = 2025 -> <<"2", "0", "2", "5">>

\* position_id of position p in the edition of a year: "17-02-01-p-year".
PositionId(p, year) ==
    <<"1", "7", "-", "0", "2", "-", "0", "1", "-", p, "-">> \o YearChars(year)

SourceIds ==
    {NoneStr, PositionId("7", 2023), PositionId("7", 2024),
     <<"1", "7", "-", "7", "-">> \o YearChars(2023)}

\* The claims the calculator is run on.
CalculatorInputs ==
    {RawInput("T-7", 7, x, total, 2024, coefs, <<>>) :
        x \in Quantities, total \in ClaimedTotals, coefs \in ClaimedLists}

\* The reference records the calculator is run on.
CalculatorReferences ==
    {ReferenceData(FromInt(5), FromInt(1), FromInt(10), FromInt(100), strategy, coefs,
                   PositionId("7", 2024)) :
        strategy \in Strategies, coefs \in ReferenceLists}
    \cup {ReferenceData(FromInt(5), FromInt(1), FromInt(10), FromInt(100), "standard", <<>>,
                        source) : source \in SourceIds}

Tolerances == {FromInt(100), FromInt(5)}

\* The rows of table T-7 in the edition of a year: a subtitle row that
\* carries the number 7, then positions 1, 7, 3 and 4.  Position 1 has both
\* stage coefficients, position 7 only k1, position 3 has both equal to 1.0
\* and lacks param_a, position 4 has k1 and a k2 of 1.0 and no position_id.
\* The constants differ by edition.
Row(number, subtitle, a, b, k1, k2, id, lo, hi) ==
    [position_number |-> number, is_subtitle |-> subtitle,
     param_a |-> a, param_b |-> b, k1 |-> k1, k2 |-> k2,
     position_id |-> id, range |-> <<lo, hi>>]

Positions(year) ==
    <<Row(7, TRUE, NoneNum, NoneNum, NoneNum, NoneNum, NoneStr, 0, 0),
      Row(1, FALSE, FromInt(year - 2000), FromInt(2), Rat(8, 10), Rat(12, 10),
          PositionId("1", year), 10, 50),
      Row(7, FALSE, FromInt(year - 2020), FromInt(1), Rat(8, 10), NoneNum,
          PositionId("7", year), 50, 100),
      Row(3, FALSE, NoneNum, FromInt(1), FromInt(1), FromInt(1),
          PositionId("3", year), 100, 120),
      Row(4, FALSE, FromInt(3), FromInt(1), Rat(8, 10), FromInt(1),
          NoneStr, 20, 60)>>

Table(code, year, positions) ==
    [table_code |-> code, year |-> year, name_ru |-> "table", positions |-> positions]

\* The documents that may be stored: table T-7 in three editions, with its
\* rows or with none, and a table of another code in a later edition.
TableDocs ==
    UNION {{Table("T-7", year, <<>>), Table("T-7", year, Positions(year))} :
              year \in {2022, 2023, 2024}}
    \cup {Table("T-9", 2025, Positions(2025))}

\* extracted_tags: none; two tags that are parts of condition texts; a tag
\* that scores 65 against one condition text and a tag that scores 64,
\* neither being a part of it.
TagLists ==
    {<<>>, <<"Seismic", "frost">>, <<"seismicity thawed">>, <<"seismic points">>}

\* The claims the resolver is run on.
ResolverInputs ==
    {RawInput("T-7", position, x, FromInt(100), year, <<>>, tags) :
        position \in {1, 2, 3, 4, 7}, x \in {FromInt(100), FromInt(150), FromInt(1000000)},
        year \in {2022, 2023, 2025}, tags \in TagLists}

----------------------------------------------------------------------------
(* The state machine.                                                      *)

NoOutcome == [op |-> "init", raised |-> FALSE, kind |-> "", message |-> [text |-> ""]]

\* A fresh row in a process that imported fuzzywuzzy.
Init ==
    /\ tables = {}
    /\ state = NewRowState("row-1")
    /\ lookup = NoneRecord
    /\ locals = NoneRecord
    /\ outcome = NoOutcome
    /\ fuzz = TRUE
    /\ ocr = NoneRecord

\* A fresh row in a process where the optional import of fuzzywuzzy either
\* succeeded or failed.
InitResolve ==
    /\ tables = {}
    /\ state = NewRowState("row-1")
    /\ lookup = NoneRecord
    /\ locals = NoneRecord
    /\ outcome = NoOutcome
    /\ fuzz \in BOOLEAN
    /\ ocr = NoneRecord

\* state.raw_input = RawInput(...): the structured claim is attached.
AttachRawInput(raw_input) ==
    /\ state' = [state EXCEPT !.raw_input = raw_input]
    /\ outcome' = [NoOutcome EXCEPT !.op = "structure"]
    /\ UNCHANGED <<tables, lookup, locals, fuzz, ocr>>

\* state.reference_data = ReferenceData(...): a reference record is attached.
AttachReferenceData(reference_data) ==
    /\ state' = [state EXCEPT !.reference_data = reference_data]
    /\ outcome' = [NoOutcome EXCEPT !.op = "reference"]
    /\ UNCHANGED <<tables, lookup, locals, fuzz, ocr>>

SetRawInput ==
    /\ state.raw_input = NoneRecord
    /\ \E raw_input \in CalculatorInputs : AttachRawInput(raw_input)

SetReferenceData ==
    /\ state.reference_data = NoneRecord
    /\ \E reference_data \in CalculatorReferences :
           AttachReferenceData(reference_data)

\* state = run_deterministic_calculator(state, tolerance)
Calculate ==
    /\ outcome.op # "calculate"
    /\ \E tolerance \in Tolerances :
        \E r \in {run_deterministic_calculator(state, tolerance)} :
            /\ state' = r.state
            /\ locals' = r.locals
            /\ outcome' = [op |-> "calculate", raised |-> r.raised,
                           kind |-> r.kind, message |-> r.message]
            /\ UNCHANGED <<tables, lookup, fuzz, ocr>>

\* A table document is stored, one per code and year, before the audit of
\* the row begins.
InsertTable ==
    /\ state.raw_input = NoneRecord
    /\ \E t \in TableDocs :
        /\ find_one(tables, t.table_code, t.year) = NoneRecord
        /\ tables' = tables \cup {t}
    /\ UNCHANGED <<state, lookup, locals, outcome, fuzz, ocr>>

\* The structurer's output is attached.
Structure ==
    /\ state.raw_input = NoneRecord
    /\ \E raw_input \in ResolverInputs : AttachRawInput(raw_input)

\* The auditor calls db_search with the fields of raw_input; what the tool
\* returns becomes reference_data, and an error leaves the state as it is.
Audit ==
    /\ state.raw_input # NoneRecord
    /\ state.reference_data = NoneRecord
    /\ outcome.op = "structure"
    /\ \E r \in {run(tables, state.raw_input.table_code_claimed,
                     state.raw_input.position_number, state.raw_input.X_claimed,
                     state.raw_input.year, state.raw_input.extracted_tags)} :
        /\ state' = IF r.raised THEN state
                    ELSE [state EXCEPT !.reference_data = r.value]
        /\ lookup' = [table |-> r.table, row |-> r.row]
        /\ outcome' = [op |-> "lookup", raised |-> r.raised,
                       kind |-> r.kind, message |-> r.message]
    /\ UNCHANGED <<tables, locals, fuzz, ocr>>

Next ==
    \/ SetRawInput
    \/ SetReferenceData
    \/ Calculate

Spec == Init /\ [][Next]_vars

NextResolve ==
    \/ InsertTable
    \/ Structure
    \/ Audit
    \/ Calculate

SpecResolve == InitResolve /\ [][NextResolve]_vars

----------------------------------------------------------------------------
(* The claims.  What a claim calls present, within bounds, a stage alias   *)
(* or normalized is written here on integers, apart from the operators of  *)
(* the calculator above.                                                   *)

\* A run of the calculator has returned.
Calculated == outcome.op = "calculate" /\ ~outcome.raised

\* A run of the calculator was made on a state holding both inputs.
CalculatedOnInputs ==
    /\ outcome.op = "calculate"
    /\ state.raw_input # NoneRecord
    /\ state.reference_data # NoneRecord

KnownStrategies == {"standard", "extrapolation_above", "extrapolation_below"}

\* A value that is present and lies in [0.1, 10.0].
Admissible(value) ==
    value.d > 0 /\ 10 * value.n >= value.d /\ value.n <= 10 * value.d

\* The ids that denote stage slot 1 or 2: K1 and K2 in Latin or Cyrillic
\* letters of either case.
StageAliases ==
    {<<letter, digit>> : letter \in {"K", "k", "cyr_K", "cyr_k"}, digit \in {"1", "2"}}

\* The coefficients a claim lets through: the admissible ones of the
\* reference, then the admissible ones of the claim that are no stage alias.
SurvivingReference(coef) == Admissible(coef.value)
SurvivingClaimed(coef) == Admissible(coef.value) /\ coef.id \notin StageAliases
Survivors ==
    SelectSeq(state.reference_data.valid_coefficients, SurvivingReference)
    \o SelectSeq(state.raw_input.claimed_coefficients, SurvivingClaimed)

\* The products of the numerators and of the denominators of the values.
RECURSIVE NumeratorProduct(_)
NumeratorProduct(coefs) ==
    IF coefs = <<>> THEN 1 ELSE coefs[1].value.n * NumeratorProduct(Tail(coefs))
RECURSIVE DenominatorProduct(_)
DenominatorProduct(coefs) ==
    IF coefs = <<>> THEN 1 ELSE coefs[1].value.d * DenominatorProduct(Tail(coefs))

RemoveAt(s, i) == SubSeq(s, 1, i - 1) \o SubSeq(s, i + 1, Len(s))

\* calculated_total of the run on the present inputs with the i-th claimed
\* coefficient, or the i-th reference coefficient, taken out of its list.
TotalWithoutClaimed(i) ==
    run_deterministic_calculator(
        [state EXCEPT !.raw_input.claimed_coefficients = RemoveAt(@, i)],
        FromInt(100)).locals.calculated_total
TotalWithoutReference(i) ==
    run_deterministic_calculator(
        [state EXCEPT !.reference_data.valid_coefficients = RemoveAt(@, i)],
        FromInt(100)).locals.calculated_total

\* The claimed total as the comparison takes it, and whether |calculated -
\* claimed| / claimed * 20 <= 1, which is a deviation of at most 5%.
ClaimCompared ==
    IF state.raw_input.total_claimed.n > 1000000 * state.raw_input.total_claimed.d
    THEN Rat(state.raw_input.total_claimed.n, 1000 * state.raw_input.total_claimed.d)
    ELSE state.raw_input.total_claimed
WithinFivePercent(calculated, claimed) ==
    RLe(RMul(RDiv(RAbs(RSub(calculated, claimed)), claimed), FromInt(20)),
        FromInt(1))

DiscrepancyTypes(verdict) ==
    {verdict.discrepancies[i].type : i \in DOMAIN verdict.discrepancies}

\* C1: after run_deterministic_calculator on a claim with a positive
\* claimed cost, audit_verdict.is_approved is true exactly when
\* |calculated_total - normalized claim| / normalized claim * 100 <= 5.0;
\* a deviation of exactly 5% is approved.
C1_ApprovedIffWithinFivePercent ==
    (Calculated /\ state.raw_input.total_claimed.n > 0) =>
        (state.audit_verdict.is_approved
            <=> WithinFivePercent(locals.calculated_total, ClaimCompared))

\* A run whose deviation is exactly 5% (105 against a claim of 100).
C1_Witness ==
    /\ Calculated
    /\ state.raw_input.total_claimed = FromInt(100)
    /\ locals.calculated_total = FromInt(105)
    /\ state.audit_verdict.is_approved

\* C2: the base cost is A + B*q under standard, A + B*(0.4*range_max +
\* 0.6*q) under extrapolation above and A + B*(0.6*range_min + 0.4*q) under
\* extrapolation below; any other strategy raises an error and no number is
\* returned.
C2_BaseByStrategy ==
    CalculatedOnInputs =>
        LET r == state.reference_data
            q == state.raw_input.X_claimed
            tenth(i) == [n |-> i, d |-> 10]
            weighted(wr, edge, wq) ==
                RAdd(r.ref_A, RMul(r.ref_B, RAdd(RMul(tenth(wr), edge),
                                                 RMul(tenth(wq), q))))
        IN  /\ outcome.raised <=> r.formula_strategy \notin KnownStrategies
            /\ outcome.raised => outcome.kind = "ValueError" /\ locals = NoneRecord
            /\ r.formula_strategy = "standard" =>
                   locals.base = weighted(0, q, 10)
            /\ r.formula_strategy = "extrapolation_above" =>
                   locals.base = weighted(4, r.range_max, 6)
            /\ r.formula_strategy = "extrapolation_below" =>
                   locals.base = weighted(6, r.range_min, 4)

\* Extrapolation above with q = 200 over a range ending at 100:
\* 5 + 1 * (0.4 * 100 + 0.6 * 200) = 165.
C2_Witness ==
    /\ Calculated
    /\ state.reference_data.formula_strategy = "extrapolation_above"
    /\ state.raw_input.X_claimed = FromInt(200)
    /\ state.reference_data.range_max = FromInt(100)
    /\ locals.base = FromInt(165)

\* C3: a coefficient of the reference or of the claim whose value is missing
\* or outside [0.1, 10.0] is dropped: calculated_total is what it would be
\* were the coefficient not in its list; is_valid tells the same
\* coefficients apart.
C3_InadmissibleDropped ==
    Calculated =>
        /\ \A i \in DOMAIN state.raw_input.claimed_coefficients :
               is_valid(state.raw_input.claimed_coefficients[i])
                   <=> Admissible(state.raw_input.claimed_coefficients[i].value)
        /\ \A i \in DOMAIN state.raw_input.claimed_coefficients :
               ~Admissible(state.raw_input.claimed_coefficients[i].value) =>
                   TotalWithoutClaimed(i) = locals.calculated_total
        /\ \A i \in DOMAIN state.reference_data.valid_coefficients :
               ~Admissible(state.reference_data.valid_coefficients[i].value) =>
                   TotalWithoutReference(i) = locals.calculated_total

\* A claim with the values 15 and 1.2 against a reference with the value 15:
\* only 1.2 is multiplied in.
C3_Witness ==
    /\ Calculated
    /\ \E i, j \in DOMAIN state.raw_input.claimed_coefficients :
           /\ state.raw_input.claimed_coefficients[i].value = FromInt(15)
           /\ state.raw_input.claimed_coefficients[j].value = Rat(12, 10)
    /\ Len(state.reference_data.valid_coefficients) = 1
    /\ state.reference_data.valid_coefficients[1].value = FromInt(15)
    /\ locals.k_total = Rat(12, 10)

\* C4: a claimed coefficient whose id is a stage alias never contributes:
\* calculated_total is what it would be without it, and the coefficients
\* multiplied in are the reference's followed by claimed ones that are no
\* stage alias, so the stage coefficient enters at most once.
C4_StageAliasNeverContributes ==
    Calculated =>
        LET kept == SelectSeq(state.reference_data.valid_coefficients, SurvivingReference)
        IN  /\ \A i \in DOMAIN state.raw_input.claimed_coefficients :
                   state.raw_input.claimed_coefficients[i].id \in StageAliases =>
                       TotalWithoutClaimed(i) = locals.calculated_total
            /\ Len(locals.all_coefficients) >= Len(kept)
            /\ SubSeq(locals.all_coefficients, 1, Len(kept)) = kept
            /\ \A j \in (Len(kept) + 1)..Len(locals.all_coefficients) :
                   locals.all_coefficients[j].id \notin StageAliases

\* A claim stating k1 = 2 in lower case against a reference that supplies
\* the stage coefficient 1.2: the multiplier is 1.2.
C4_Witness ==
    /\ Calculated
    /\ \E i \in DOMAIN state.raw_input.claimed_coefficients :
           /\ state.raw_input.claimed_coefficients[i].id = <<"k", "1">>
           /\ state.raw_input.claimed_coefficients[i].value = FromInt(2)
    /\ Len(state.raw_input.claimed_coefficients) = 1
    /\ Len(state.reference_data.valid_coefficients) = 1
    /\ state.reference_data.valid_coefficients[1].value = Rat(12, 10)
    /\ locals.k_total = Rat(12, 10)

\* C5: calculated_total = base * multiplier, the multiplier being the
\* product of the values of the surviving coefficients, exactly 1 when none
\* survives and always strictly positive; _coeff_product gives the same
\* multiplier.
C5_MultiplierIsProduct ==
    Calculated =>
        /\ locals.calculated_total = RMul(locals.base, locals.k_total)
        /\ state.audit_verdict.calculated_total = Round2(locals.calculated_total)
        /\ locals.k_total.n * DenominatorProduct(Survivors)
               = NumeratorProduct(Survivors) * locals.k_total.d
        /\ Survivors = <<>> => locals.k_total = FromInt(1)
        /\ locals.k_total.n > 0 /\ locals.k_total.d > 0
        /\ coeff_product(state.reference_data, state.raw_input) = locals.k_total

\* Coefficients are stated on both sides and none survives: the multiplier
\* is 1 and the total is the base.
C5_Witness ==
    /\ Calculated
    /\ state.raw_input.claimed_coefficients # <<>>
    /\ state.reference_data.valid_coefficients # <<>>
    /\ Survivors = <<>>
    /\ locals.k_total = FromInt(1)
    /\ locals.calculated_total = locals.base

\* C6: the claimed cost compared is claimed_cost / 1000 when claimed_cost >
\* 1,000,000 and claimed_cost itself otherwise; exactly 1,000,000 is not
\* divided.
C6_ClaimNormalized ==
    Calculated =>
        LET claimed == state.raw_input.total_claimed
            compared == locals.claimed_in_thousands
            distance == RAbs(RSub(locals.calculated_total, compared))
        IN  /\ claimed.n > 1000000 * claimed.d =>
                   compared.n * claimed.d * 1000 = claimed.n * compared.d
            /\ claimed.n <= 1000000 * claimed.d => compared = claimed
            /\ locals.delta = distance

\* A claimed cost of exactly 1,000,000 is compared as it stands.
C6_Witness ==
    /\ Calculated
    /\ state.raw_input.total_claimed = FromInt(1000000)
    /\ locals.claimed_in_thousands = FromInt(1000000)

\* C7: with a claimed cost of zero the calculator returns, the deviation
\* percent is 0, the verdict is approved and carries no deviation
\* discrepancy, whatever the calculated total.
C7_ZeroClaim ==
    (CalculatedOnInputs /\ state.raw_input.total_claimed.n = 0) =>
        /\ outcome.raised =>
               state.reference_data.formula_strategy \notin KnownStrategies
        /\ Calculated =>
               /\ locals.delta_percent = FromInt(0)
               /\ locals.is_approved
               /\ state.audit_verdict.is_approved
               /\ "calculation_deviation" \notin DiscrepancyTypes(state.audit_verdict)

\* A claim of zero against a calculated total of 126.
C7_Witness ==
    /\ Calculated
    /\ state.raw_input.total_claimed = FromInt(0)
    /\ locals.calculated_total = FromInt(126)
    /\ locals.delta = FromInt(126)
    /\ state.audit_verdict.is_approved
    /\ state.audit_verdict.discrepancies = <<>>

\* The lookup of the resolver has just ended.
LookedUp == outcome.op = "lookup"

\* The stored tables of the claimed code, those of the claimed year among
\* them, and those of the latest year among them.
SameCode == {t \in tables : t.table_code = state.raw_input.table_code_claimed}
SameCodeAndYear == {t \in SameCode : t.year = state.raw_input.year}
LatestOfCode == {t \in SameCode : \A u \in SameCode : u.year <= t.year}
Expected == IF SameCodeAndYear # {} THEN SameCodeAndYear ELSE LatestOfCode

NotFound ==
    /\ outcome.raised
    /\ outcome.message.text = "No table found in SCP reference for code"
    /\ outcome.message.table_code = state.raw_input.table_code_claimed
    /\ lookup.table = NoneRecord

\* C8 as stated: the lookup returns the table of the claimed code and year
\* when it is stored, else the table of that code with the latest year, and
\* fails with a not-found error when the code has no table in any year.
C8_Original ==
    LookedUp =>
        /\ SameCode = {} => NotFound
        /\ \A t \in Expected : lookup.table = t

\* C8, amended: the table of the claimed code and year when stored, else the
\* table of that code with the latest year, is returned provided it has at
\* least one position; when it has none the lookup fails with an error
\* instead of returning it, and looks in no other year; when the code has no
\* table in any year the lookup fails with a not-found error.
C8_TableOfYearOrLatest ==
    LookedUp =>
        /\ SameCode = {} => NotFound
        /\ \A t \in Expected :
               IF t.positions = <<>>
               THEN /\ outcome.raised
                    /\ outcome.message.text = "Table has no configured positions"
                    /\ lookup.table = NoneRecord
               ELSE lookup.table = t

\* The claimed year 2025 is not stored for the code, 2022 and 2024 are, and
\* another code has a table of 2025: the table of 2024 is returned.
C8_Witness ==
    /\ LookedUp
    /\ state.raw_input.year = 2025
    /\ {t.year : t \in SameCode} = {2022, 2024}
    /\ \E t \in tables : t.table_code # state.raw_input.table_code_claimed /\ t.year = 2025
    /\ lookup.table # NoneRecord
    /\ lookup.table.year = 2024
    /\ lookup.table.table_code = state.raw_input.table_code_claimed

\* The lookup of the resolver has ended and the table lookup returned a
\* table, so the position lookup ran on it.
PositionLookedUp == LookedUp /\ lookup.table # NoneRecord

\* The indices of the rows of the table found that are no subtitle and carry
\* the requested number.
ExactRows ==
    {i \in DOMAIN lookup.table.positions :
        /\ ~lookup.table.positions[i].is_subtitle
        /\ lookup.table.positions[i].position_number = state.raw_input.position_number}

\* C9: the position lookup returns only a row that is no subtitle and whose
\* position_number equals the requested number; when no such row exists it
\* raises an error naming the table code and the requested number, and
\* returns no other row.
C9_PositionExactOrError ==
    PositionLookedUp =>
        /\ ExactRows # {} =>
               /\ ~outcome.raised
               /\ \E i \in ExactRows : lookup.row = lookup.table.positions[i]
        /\ ExactRows = {} =>
               /\ outcome.raised
               /\ outcome.message.table_code = state.raw_input.table_code_claimed
               /\ outcome.message.position_number = state.raw_input.position_number
               /\ lookup.row = NoneRecord
               /\ state.reference_data = NoneRecord

\* Position 7 is requested from a table whose first row is a subtitle
\* numbered 7: the later row that is no subtitle is returned.
C9_Witness ==
    /\ PositionLookedUp
    /\ state.raw_input.position_number = 7
    /\ lookup.table.positions[1].is_subtitle
    /\ lookup.table.positions[1].position_number = 7
    /\ lookup.row = lookup.table.positions[3]
    /\ ~lookup.row.is_subtitle

\* The calculator has returned on the reference the resolver found.
ResolvedAndCalculated == Calculated /\ lookup # NoneRecord

\* The claimed quantity exceeds the max of every position of the table found.
ExceedsEveryMax ==
    \A i \in DOMAIN lookup.table.positions :
        state.raw_input.X_claimed.n
            > lookup.table.positions[i].range[2] * state.raw_input.X_claimed.d

RangeWarning(verdict) ==
    \E i \in DOMAIN verdict.discrepancies :
        /\ verdict.discrepancies[i].type = "value_out_of_range"
        /\ verdict.discrepancies[i].severity = "warning"

\* C10 as stated: when the claimed quantity exceeds every position's max of
\* the matched table, the resolved reference has the strategy extrapolation
\* above and the verdict carries a value_out_of_range warning.
C10_Original ==
    (ResolvedAndCalculated /\ ExceedsEveryMax) =>
        /\ state.reference_data.formula_strategy = "extrapolation_above"
        /\ RangeWarning(state.audit_verdict)

\* C10, amended: whatever the positions' ranges, the resolved reference has
\* the strategy standard and the range [0, 999999], and the verdict carries
\* a value_out_of_range discrepancy, of severity warning, exactly when the
\* claimed quantity is below 0 or above 999999.
C10_StandardWithFixedRange ==
    ResolvedAndCalculated =>
        /\ state.reference_data.formula_strategy = "standard"
        /\ state.reference_data.range_min = FromInt(0)
        /\ state.reference_data.range_max = FromInt(999999)
        /\ "value_out_of_range" \in DiscrepancyTypes(state.audit_verdict)
               <=> \/ state.raw_input.X_claimed.n < 0
                   \/ state.raw_input.X_claimed.n > 999999 * state.raw_input.X_claimed.d
        /\ "value_out_of_range" \in DiscrepancyTypes(state.audit_verdict)
               => RangeWarning(state.audit_verdict)

\* A quantity of 150 exceeds every position's max (at most 120): the
\* strategy is standard and no range discrepancy is reported.
C10_Witness ==
    /\ ResolvedAndCalculated
    /\ ExceedsEveryMax
    /\ state.raw_input.X_claimed = FromInt(150)
    /\ state.reference_data.formula_strategy = "standard"
    /\ "value_out_of_range" \notin DiscrepancyTypes(state.audit_verdict)

\* The resolver found a table and a position, and reference_data is what it
\* returned.
Resolved ==
    /\ lookup # NoneRecord
    /\ lookup.row # NoneRecord
    /\ state.reference_data # NoneRecord

Stage1Id == <<"k", "1", "_", "s", "t", "a", "g", "e">>
Stage2Id == <<"k", "2", "_", "s", "t", "a", "g", "e">>

\* The indices of valid_coefficients holding the coefficient of an id.
Merged(id) ==
    {i \in DOMAIN state.reference_data.valid_coefficients :
        state.reference_data.valid_coefficients[i].id = id}

\* The coefficient of an id is merged once, with a value.
MergedAs(id, value) ==
    /\ Cardinality(Merged(id)) = 1
    /\ \A i \in Merged(id) : state.reference_data.valid_coefficients[i].value = value

\* C11 as stated: when the matched position carries both stage
\* coefficients, valid_coefficients holds the stage-2 and not the stage-1
\* coefficient; at most one stage coefficient is merged, and the stage-1
\* coefficient only when the position has no stage-2 coefficient.
C11_Original ==
    Resolved =>
        /\ (lookup.row.k1.d # 0 /\ lookup.row.k2.d # 0) =>
               Merged(Stage2Id) # {} /\ Merged(Stage1Id) = {}
        /\ Cardinality(Merged(Stage1Id) \cup Merged(Stage2Id)) <= 1
        /\ Merged(Stage1Id) # {} => lookup.row.k2.d = 0

\* C11, amended: a stage coefficient whose value is exactly 1.0 is never
\* merged.  A position with a stage-2 coefficient other than 1.0 gets the
\* stage-2 coefficient and not the stage-1; a position with a stage-2
\* coefficient of 1.0 gets no stage coefficient, whatever its stage-1
\* coefficient; a position without a stage-2 coefficient gets the stage-1
\* coefficient when that is present and not 1.0.  At most one stage
\* coefficient is merged.
C11_StageTwoPreferred ==
    Resolved =>
        LET k1 == lookup.row.k1
            k2 == lookup.row.k2
            one == [n |-> 1, d |-> 1]
        IN  /\ (k2.d # 0 /\ k2 # one) =>
                   MergedAs(Stage2Id, k2) /\ Merged(Stage1Id) = {}
            /\ (k2.d # 0 /\ k2 = one) =>
                   Merged(Stage2Id) = {} /\ Merged(Stage1Id) = {}
            /\ (k2.d = 0 /\ k1.d # 0 /\ k1 # one) =>
                   MergedAs(Stage1Id, k1) /\ Merged(Stage2Id) = {}
            /\ (k2.d = 0 /\ (k1.d = 0 \/ k1 = one)) =>
                   Merged(Stage2Id) = {} /\ Merged(Stage1Id) = {}
            /\ Cardinality(Merged(Stage1Id) \cup Merged(Stage2Id)) <= 1

\* Position 1 carries k1 = 0.8 and k2 = 1.2: only the stage-2 coefficient
\* 1.2 is merged.
C11_Witness ==
    /\ Resolved
    /\ lookup.row.k1 = Rat(8, 10)
    /\ lookup.row.k2 = Rat(12, 10)
    /\ MergedAs(Stage2Id, Rat(12, 10))
    /\ Merged(Stage1Id) = {}

\* The conditional coefficients the resolver returned: valid_coefficients
\* without the stage coefficients.
IsConditional(coef) == coef.id \notin {Stage1Id, Stage2Id}
ReturnedConditional ==
    SelectSeq(state.reference_data.valid_coefficients, IsConditional)

\* Some tag of the claim scores at least 65 against a condition text, or is
\* a part of it.
SomeTagScores65(condition_text) ==
    \E i \in DOMAIN state.raw_input.extracted_tags :
        partial_ratio(Lower(state.raw_input.extracted_tags[i]),
                      Lower(condition_text)) >= 65
SomeTagIsPart(condition_text) ==
    \E i \in DOMAIN state.raw_input.extracted_tags :
        is_part_of(Lower(state.raw_input.extracted_tags[i]), Lower(condition_text))

AppliesAndScores65(doc) ==
    /\ state.raw_input.table_code_claimed \in doc.codes
    /\ SomeTagScores65(doc.condition_full)
AppliesAndIsPart(doc) ==
    /\ state.raw_input.table_code_claimed \in doc.codes
    /\ SomeTagIsPart(doc.condition_full)

AsCoefficients(docs) ==
    [i \in DOMAIN docs |->
        CoefficientData(docs[i].id, docs[i].coefficient_value, docs[i].condition_full)]

\* C12 as stated: tag matching returns exactly the conditional coefficients
\* applicable to the table code for which some tag scores at least 65
\* against the condition text, all of them, and none for an empty tag list.
C12_Original ==
    Resolved =>
        /\ ReturnedConditional
               = AsCoefficients(SelectSeq(CoefficientDocs, AppliesAndScores65))
        /\ state.raw_input.extracted_tags = <<>> => ReturnedConditional = <<>>

\* C12, amended: where the fuzzywuzzy package is importable, tag matching
\* returns exactly the applicable coefficients for which some tag scores at
\* least 65 (65 matches, 64 does not), all of them; where it is not, it
\* returns exactly the applicable coefficients whose condition text
\* contains some tag as a substring, whatever the tag would score; with an
\* empty tag list none is returned.
C12_ByScoreOrSubstring ==
    Resolved =>
        /\ fuzz => ReturnedConditional
                       = AsCoefficients(SelectSeq(CoefficientDocs, AppliesAndScores65))
        /\ ~fuzz => ReturnedConditional
                        = AsCoefficients(SelectSeq(CoefficientDocs, AppliesAndIsPart))
        /\ state.raw_input.extracted_tags = <<>> => ReturnedConditional = <<>>

\* With fuzzywuzzy, a single tag that scores exactly 65 against the
\* seismicity condition and 19 against the other: the seismicity
\* coefficient is returned.
C12_Witness ==
    /\ Resolved
    /\ fuzz
    /\ state.raw_input.extracted_tags = <<"seismicity thawed">>
    /\ partial_ratio("seismicity thawed", "seismicity 7 points") = 65
    /\ Len(ReturnedConditional) = 1
    /\ ReturnedConditional[1].id = <<"c", "1">>

\* The editions a source_position_id of the model may name.
EditionYears == {2022, 2023, 2024, 2025}

\* The id ends in "-" followed by the four digits of the year.
EndsInYear(id, year) ==
    /\ Len(id) >= 5
    /\ SubSeq(id, Len(id) - 4, Len(id)) = <<"-">> \o YearChars(year)

\* The number of "-" separated parts of the id.
PartCount(id) == Cardinality({i \in DOMAIN id : id[i] = "-"}) + 1

YearMismatches(verdict) ==
    {i \in DOMAIN verdict.discrepancies :
        verdict.discrepancies[i].type = "year_mismatch"}

\* C13 as stated: whenever source_position_id ends in a 4-digit year token
\* that differs from the claim's year the verdict holds a critical
\* year_mismatch, approved or not; when the years are equal it holds none.
C13_Original ==
    Calculated =>
        \A year \in EditionYears :
            EndsInYear(state.reference_data.source_position_id, year) =>
                /\ year # state.raw_input.year =>
                       \E i \in YearMismatches(state.audit_verdict) :
                           state.audit_verdict.discrepancies[i].severity = "critical"
                /\ year = state.raw_input.year =>
                       YearMismatches(state.audit_verdict) = {}

\* C13, amended: the verdict holds a year_mismatch, one, of severity
\* critical and naming both years, exactly when source_position_id has at
\* least five "-" separated parts, ends in a 4-digit year token, and that
\* year differs from the claim's; approved or not.  An id of fewer parts
\* raises none whatever year it ends in.
C13_YearMismatchOfFivePartIds ==
    Calculated =>
        LET id == state.reference_data.source_position_id
            named == {year \in EditionYears : EndsInYear(id, year) /\ PartCount(id) >= 5}
        IN  /\ YearMismatches(state.audit_verdict) # {}
                   <=> \E year \in named : year # state.raw_input.year
            /\ Cardinality(YearMismatches(state.audit_verdict)) <= 1
            /\ \A i \in YearMismatches(state.audit_verdict) :
                   /\ state.audit_verdict.discrepancies[i].severity = "critical"
                   /\ state.audit_verdict.discrepancies[i].details.claimed_year
                          = state.raw_input.year
                   /\ state.audit_verdict.discrepancies[i].details.correct_year \in named

\* An approved claim of 2024 against a five-part id ending in -2023.
C13_Witness ==
    /\ Calculated
    /\ state.raw_input.year = 2024
    /\ state.reference_data.source_position_id = PositionId("7", 2023)
    /\ state.audit_verdict.is_approved
    /\ YearMismatches(state.audit_verdict) # {}

\* The discrepancies of a type in a verdict.
OfType(verdict, type) ==
    {i \in DOMAIN verdict.discrepancies : verdict.discrepancies[i].type = type}

\* The deviation of the calculated total from the compared claim exceeds 5%
\* (a claim that is not positive counts as a deviation of 0%).
DeviationExceedsFive ==
    /\ ClaimCompared.n > 0
    /\ ~WithinFivePercent(locals.calculated_total, ClaimCompared)

\* C14: a constant_mismatch and a calculation_deviation discrepancy, both
\* critical, are each present exactly when the deviation percent exceeds 5,
\* which is exactly when is_approved is false; an approved verdict holds
\* neither.
C14_CriticalPairIffRejected ==
    Calculated =>
        /\ DeviationExceedsFive <=> ~state.audit_verdict.is_approved
        /\ \A type \in {"constant_mismatch", "calculation_deviation"} :
               /\ Cardinality(OfType(state.audit_verdict, type))
                      = IF state.audit_verdict.is_approved THEN 0 ELSE 1
               /\ \A i \in OfType(state.audit_verdict, type) :
                      state.audit_verdict.discrepancies[i].severity = "critical"

\* A rejected claim (105 calculated against 1000000 claimed) with both.
C14_Witness ==
    /\ Calculated
    /\ ~state.audit_verdict.is_approved
    /\ locals.calculated_total = FromInt(105)
    /\ state.raw_input.total_claimed = FromInt(1000000)
    /\ OfType(state.audit_verdict, "constant_mismatch") # {}
    /\ OfType(state.audit_verdict, "calculation_deviation") # {}

\* A coefficient_unusual discrepancy of severity warning names the
\* coefficient's id and value.
NamedUnusual(verdict, coef) ==
    \E i \in OfType(verdict, "coefficient_unusual") :
        /\ verdict.discrepancies[i].severity = "warning"
        /\ verdict.discrepancies[i].details.coefficient_id = coef.id
        /\ verdict.discrepancies[i].details.value = coef.value

\* The value lies outside [0.5, 3.0].
OutsideUsual(value) == 2 * value.n < value.d \/ value.n > 3 * value.d

\* C15: every claim-side coefficient that is no stage coefficient and whose
\* value is present and outside [0.5, 3.0] has a coefficient_unusual warning
\* naming its id and value in the verdict; one with a value inside
\* [0.5, 3.0], bounds included, has none.
C15_UnusualFlagged ==
    Calculated =>
        \A i \in DOMAIN state.raw_input.claimed_coefficients :
            LET coef == state.raw_input.claimed_coefficients[i]
            IN  (coef.id \notin StageAliases /\ coef.value.d # 0) =>
                    (NamedUnusual(state.audit_verdict, coef)
                        <=> OutsideUsual(coef.value))

\* The claim states the single coefficient K9 = 0.0, which is present, no
\* stage coefficient and outside [0.5, 3.0], and the verdict holds no
\* coefficient_unusual discrepancy.
C15_Witness ==
    /\ Calculated
    /\ Len(state.raw_input.claimed_coefficients) = 1
    /\ state.raw_input.claimed_coefficients[1].id = <<"K", "9">>
    /\ state.raw_input.claimed_coefficients[1].value = FromInt(0)
    /\ OfType(state.audit_verdict, "coefficient_unusual") = {}

\* C16: a value_out_of_range discrepancy, of severity warning, is in the
\* verdict exactly when the claimed quantity is below range_min or above
\* range_max of the reference; a quantity equal to a bound raises none; its
\* details name the formula strategy in effect.
C16_RangeWarningIffOutside ==
    Calculated =>
        LET x == state.raw_input.X_claimed
            lo == state.reference_data.range_min
            hi == state.reference_data.range_max
            outside == x.n * lo.d < lo.n * x.d \/ x.n * hi.d > hi.n * x.d
        IN  /\ Cardinality(OfType(state.audit_verdict, "value_out_of_range"))
                   = IF outside THEN 1 ELSE 0
            /\ \A i \in OfType(state.audit_verdict, "value_out_of_range") :
                   /\ state.audit_verdict.discrepancies[i].severity = "warning"
                   /\ state.audit_verdict.discrepancies[i].details.extrapolation_used
                          = state.reference_data.formula_strategy
                   /\ state.audit_verdict.discrepancies[i].details.X_claimed = x

\* A quantity of 10 against the range [10, 100]: on the bound, no
\* discrepancy.
C16_Witness ==
    /\ Calculated
    /\ state.raw_input.X_claimed = FromInt(10)
    /\ state.reference_data.range_min = FromInt(10)
    /\ OfType(state.audit_verdict, "value_out_of_range") = {}

\* The breakdown of the verdict and its list of applied coefficients.
Breakdown == state.audit_verdict.calculation_breakdown
Applied == Breakdown.coefficients_applied

\* C17: coefficients_applied lists, in order, exactly the coefficients whose
\* values were multiplied into calculated_total, so the product of the
\* listed values is the multiplier used; a claimed coefficient with an
\* out-of-bounds value is still in the claim, is not listed and does not
\* affect calculated_total.
C17_AppliedAreTheMultiplied ==
    Calculated =>
        /\ Len(Applied) = Len(Survivors)
        /\ \A j \in DOMAIN Applied :
               /\ Applied[j].value = Survivors[j].value
               /\ Applied[j].id = IF Survivors[j].id \in {NoneStr, <<>>}
                                  THEN <<"K">> ELSE Survivors[j].id
        /\ locals.k_total.n * DenominatorProduct(Applied)
               = NumeratorProduct(Applied) * locals.k_total.d
        /\ locals.calculated_total = RMul(locals.base, locals.k_total)
        /\ \A i \in DOMAIN state.raw_input.claimed_coefficients :
               LET coef == state.raw_input.claimed_coefficients[i]
               IN  ~Admissible(coef.value) =>
                       /\ \A j \in DOMAIN Applied :
                              ~(Applied[j].id = coef.id /\ Applied[j].value = coef.value)
                       /\ TotalWithoutClaimed(i) = locals.calculated_total

\* The claim states K6 = 15.0 and K3 = 1.2 against a reference that
\* supplies the stage coefficient: two coefficients are listed, 15.0 is not.
C17_Witness ==
    /\ Calculated
    /\ Len(state.raw_input.claimed_coefficients) = 2
    /\ state.raw_input.claimed_coefficients[1].value = FromInt(15)
    /\ state.raw_input.claimed_coefficients[2].id = <<"K", "3">>
    /\ Len(Applied) = 2
    /\ Applied[1].id = Stage2Id
    /\ Applied[2].id = <<"K", "3">>
    /\ locals.k_total = Rat(36, 25)

\* The product of a sequence of numbers.
RECURSIVE ProductOfNumbers(_)
ProductOfNumbers(numbers) ==
    IF numbers = <<>> THEN FromInt(1)
    ELSE RMul(numbers[1], ProductOfNumbers(Tail(numbers)))

\* What the left side of the rendered equation evaluates to:
\* (a + b * x) * c1 * c2 * ..., on the numbers as rendered.
RenderedLeftSide ==
    RMul(RAdd(Breakdown.formula_used.a,
              RMul(Breakdown.formula_used.b, Breakdown.formula_used.x)),
         ProductOfNumbers(Breakdown.formula_used.coeffs))

\* C18: the equation rendered in formula_used reproduces the calculation:
\* under every formula strategy the calculator accepts, (A + B * quantity)
\* times the listed coefficients equals, to two decimals, the total the
\* equation shows, which is the final_cost of the same breakdown.
C18_RenderedEquationHolds ==
    Calculated =>
        /\ Breakdown.formula_used.total = Breakdown.final_cost
        /\ Len(Breakdown.formula_used.coeffs) = Len(Applied)
        /\ Round2(RenderedLeftSide) = Breakdown.final_cost

\* Extrapolation above with A = 5, B = 1, quantity 200 and no coefficient:
\* the equation shows (5 + 1 * 200), which is 205, as equal to 165.
C18_Witness ==
    /\ Calculated
    /\ state.reference_data.formula_strategy = "extrapolation_above"
    /\ Applied = <<>>
    /\ Breakdown.formula_used.a = FromInt(5)
    /\ Breakdown.formula_used.b = FromInt(1)
    /\ Breakdown.formula_used.x = FromInt(200)
    /\ RenderedLeftSide = FromInt(205)
    /\ Breakdown.formula_used.total = FromInt(165)
    /\ Breakdown.final_cost = FromInt(165)

\* The same claim and reference data on a row that was never audited.
FreshRow == [state EXCEPT !.audit_verdict = DefaultVerdict]

\* C19: the audit is repeatable.  Running the calculator again on the state
\* it returned returns, whatever the tolerance, and leaves the state, with
\* calculated_total, is_approved, reason, discrepancies and
\* calculation_breakdown, as it was: discrepancies are replaced, not
\* accumulated.  A never-audited row with the same claim and reference data
\* gets the same verdict.
C19_RerunIsIdentical ==
    Calculated =>
        \A tolerance \in Tolerances :
            /\ \A again \in {run_deterministic_calculator(state, tolerance)} :
                   /\ ~again.raised
                   /\ again.state = state
                   /\ again.state.audit_verdict.discrepancies
                          = state.audit_verdict.discrepancies
                   /\ again.locals = locals
            /\ \A fresh \in {run_deterministic_calculator(FreshRow, tolerance)} :
                   /\ ~fresh.raised
                   /\ fresh.state.audit_verdict = state.audit_verdict

\* A rejected row with three discrepancies is run again and still has them.
C19_Witness ==
    /\ Calculated
    /\ ~state.audit_verdict.is_approved
    /\ Len(state.audit_verdict.discrepancies) = 3
    /\ Len(run_deterministic_calculator(state, FromInt(5))
               .state.audit_verdict.discrepancies) = 3

\* The audited row with one of the three things a run raises on.
WithoutRawInput == [state EXCEPT !.raw_input = NoneRecord]
WithoutReferenceData == [state EXCEPT !.reference_data = NoneRecord]
WithUnknownStrategy ==
    [state EXCEPT !.reference_data.formula_strategy = "linear"]
RaisingRows == {WithoutRawInput, WithoutReferenceData, WithUnknownStrategy}

\* All five fields of a verdict are set.
VerdictSet(verdict) ==
    /\ ~IsNone(verdict.calculated_total)
    /\ verdict.is_approved \in BOOLEAN
    /\ verdict.reason.text # "<None>"
    /\ \A i \in DOMAIN verdict.discrepancies :
           verdict.discrepancies[i].severity \in {"critical", "warning"}
    /\ verdict.calculation_breakdown # NoneRecord

\* C20: the calculator returns a verdict with calculated_total,
\* is_approved, reason, discrepancies and calculation_breakdown all set, or
\* it raises.  It raises exactly when raw_input is missing, reference_data
\* is missing or the formula strategy is unknown, and then the row's
\* verdict is as it was before the call: the fresh verdict on a row not yet
\* audited, and the recorded verdict on an audited row.
C20_VerdictWholeOrUntouched ==
    /\ outcome.op = "calculate" =>
           /\ outcome.raised <=>
                  \/ state.raw_input = NoneRecord
                  \/ state.reference_data = NoneRecord
                  \/ state.reference_data.formula_strategy \notin KnownStrategies
           /\ outcome.raised => state.audit_verdict = DefaultVerdict
           /\ ~outcome.raised => VerdictSet(state.audit_verdict)
    /\ Calculated =>
           \A row \in RaisingRows : \A tolerance \in Tolerances :
               \A r \in {run_deterministic_calculator(row, tolerance)} :
                   /\ r.raised
                   /\ r.state = row
                   /\ r.state.audit_verdict = state.audit_verdict

\* An approved row whose strategy is then unknown: the run raises and the
\* approval, total and breakdown stay.
C20_Witness ==
    /\ Calculated
    /\ state.audit_verdict.is_approved
    /\ state.audit_verdict.calculated_total = FromInt(126)
    /\ \A r \in {run_deterministic_calculator(WithUnknownStrategy, FromInt(100))} :
           /\ r.raised
           /\ r.state.audit_verdict.is_approved
           /\ r.state.audit_verdict.calculated_total = FromInt(126)
           /\ r.state.audit_verdict.calculation_breakdown # NoneRecord

\* The row found lacks one of the formula constants.
LacksConstant ==
    /\ lookup # NoneRecord
    /\ lookup.row # NoneRecord
    /\ IsNone(lookup.row.param_a) \/ IsNone(lookup.row.param_b)

\* C21: when the matched position lacks param_a or param_b the audit aborts
\* before any cost is computed: the resolver produces no reference record
\* for that position and no total is calculated for the row.
C21_MissingConstantAborts ==
    LacksConstant =>
        /\ state.reference_data = NoneRecord
        /\ IsNone(state.audit_verdict.calculated_total)
        /\ LookedUp => outcome.raised

\* Position 3 has no param_a: the resolver returns ref_A = 0.0 and the
\* calculator approves the claim of 100 at the total 0 + 1 * 100.
C21_Witness ==
    /\ LacksConstant
    /\ Calculated
    /\ state.raw_input.position_number = 3
    /\ IsNone(lookup.row.param_a)
    /\ state.reference_data.ref_A = FromInt(0)
    /\ state.audit_verdict.calculated_total = FromInt(100)
    /\ state.audit_verdict.is_approved

\* The table found is of another year than the claimed one, and the row
\* found in it was calculated.
YearSubstituted ==
    /\ Calculated
    /\ lookup # NoneRecord
    /\ lookup.table # NoneRecord
    /\ lookup.table.year # state.raw_input.year

\* C22: whenever the resolver substitutes a table of another year, the
\* verdict calculated for the claim holds a discrepancy reporting the year.
C22_SubstitutionSurfaced ==
    YearSubstituted => YearMismatches(state.audit_verdict) # {}

\* A claim of year 2025 on position 4, which carries no position_id, is
\* resolved in the edition of 2024 and approved without any discrepancy.
C22_Witness ==
    /\ YearSubstituted
    /\ state.raw_input.year = 2025
    /\ lookup.table.year = 2024
    /\ state.raw_input.position_number = 4
    /\ state.reference_data.source_position_id = NoneStr
    /\ state.audit_verdict.is_approved
    /\ state.audit_verdict.discrepancies = <<>>

\* Constants and ranges the boundary is examined on, besides those of the
\* reference record at hand.
BoundaryConstants == {FromInt(0), FromInt(5), Rat(5, 2), RNeg(FromInt(2))}
BoundaryRanges ==
    {<<FromInt(0), FromInt(999999)>>, <<FromInt(10), FromInt(100)>>,
     <<Rat(1, 2), Rat(12089, 100)>>}

\* The reference record with other constants, range and strategy.
ReferenceWith(a, b, range, strategy) ==
    [state.reference_data EXCEPT !.ref_A = a, !.ref_B = b,
                                 !.range_min = range[1], !.range_max = range[2],
                                 !.formula_strategy = strategy]

NonNegativeSlopes == {FromInt(0), FromInt(1), Rat(5, 2)}
MonotoneQuantities == {FromInt(10), FromInt(25), Rat(101, 2), FromInt(100)}

\* The quantities, the claimed one among them, inside the reference range.
InRangeQuantities ==
    {q \in MonotoneQuantities \cup {state.raw_input.X_claimed} :
        /\ RLe(state.reference_data.range_min, q)
        /\ RLe(q, state.reference_data.range_max)}

\* calculated_total of the same row with slope b and quantity q.
TotalAt(b, q) ==
    run_deterministic_calculator(
        [state EXCEPT !.reference_data.ref_B = b, !.raw_input.X_claimed = q],
        FromInt(100)).state.audit_verdict.calculated_total

\* C24: under the standard strategy with B >= 0, the same reference record
\* and the same coefficients, calculated_total does not decrease with the
\* quantity: for q1 <= q2 inside the range, total(q1) <= total(q2).
C24_MonotoneInQuantity ==
    (Calculated /\ state.reference_data.formula_strategy = "standard") =>
        \A b \in NonNegativeSlopes :
            \E total \in {[q \in InRangeQuantities |-> TotalAt(b, q)]} :
                /\ \A q1 \in InRangeQuantities : \A q2 \in InRangeQuantities :
                       RLe(q1, q2) => RLe(total[q1], total[q2])
                /\ (/\ b = state.reference_data.ref_B
                    /\ state.raw_input.X_claimed \in InRangeQuantities)
                       => total[state.raw_input.X_claimed]
                              = state.audit_verdict.calculated_total

\* A row calculated at quantity 10 with coefficients 1.2 and 1.2: 21.6,
\* and 151.2 at quantity 100.
C24_Witness ==
    /\ Calculated
    /\ state.reference_data.formula_strategy = "standard"
    /\ state.raw_input.X_claimed = FromInt(10)
    /\ locals.k_total = Rat(36, 25)
    /\ state.audit_verdict.calculated_total = Rat(108, 5)
    /\ TotalAt(FromInt(1), FromInt(100)) = Rat(756, 5)

Reason == state.audit_verdict.reason

\* The rendered reason shows the observed deviation: its amount or its
\* percent, to two decimals.
StatesDeviation ==
    \E i \in DOMAIN Reason.args :
        Reason.args[i] \in {Round2(locals.delta), Round2(locals.delta_percent)}

\* The rendered reason shows the tolerance of 5%: the template holds no
\* number, so it does when the number before "% tolerance" is 5.00.
StatesTolerance ==
    /\ Reason.text = "Match within {:.2f}% tolerance"
    /\ Reason.args[1] = FromInt(5)

\* C25 as stated: the reason states both the tolerance of 5% and the
\* observed deviation, in the approved and in the rejected case.
C25_Original ==
    Calculated => (StatesTolerance /\ StatesDeviation)

\* C25: the reason states the observed deviation and nothing else: when
\* approved, the percent in "Match within ...% tolerance"; when rejected,
\* the amount and the percent.  The 5% of the threshold appears only when
\* an approved deviation itself rounds to 5.00%.
C25_ReasonStatesDeviationOnly ==
    Calculated =>
        /\ StatesDeviation
        /\ state.audit_verdict.is_approved =>
               /\ Reason.text = "Match within {:.2f}% tolerance"
               /\ Reason.args = <<Round2(locals.delta_percent)>>
        /\ ~state.audit_verdict.is_approved =>
               /\ Reason.text = "Deviation {:.2f} thousand tenge ({:.2f}%)"
               /\ Reason.args = <<Round2(locals.delta), Round2(locals.delta_percent)>>
        /\ StatesTolerance <=>
               /\ state.audit_verdict.is_approved
               /\ Round2(locals.delta_percent) = FromInt(5)

\* A claim of 100 calculated at exactly 100 is approved with the reason
\* "Match within 0.00% tolerance".
C25_Witness ==
    /\ Calculated
    /\ state.audit_verdict.is_approved
    /\ state.raw_input.total_claimed = FromInt(100)
    /\ state.audit_verdict.calculated_total = FromInt(100)
    /\ Reason.args = <<FromInt(0)>>
    /\ ~StatesTolerance

\* A step that is a call of run_deterministic_calculator.
CalculatorCalled == outcome.op # "calculate" /\ outcome'.op = "calculate"

\* C26: a call of run_deterministic_calculator, returning or raising,
\* changes nothing of the state but audit_verdict: id, raw_input with its
\* claimed_coefficients and reference_data with its valid_coefficients are
\* after the call what they were before it.
C26_OnlyVerdictChanges ==
    [][CalculatorCalled =>
           /\ state'.id = state.id
           /\ state'.raw_input = state.raw_input
           /\ state'.reference_data = state.reference_data
           /\ outcome'.raised => state' = state]_vars

\* A returned row whose claim still lists the coefficient 15.0 that was
\* left out of the product, and whose reference still lists its own.
C26_Witness ==
    /\ Calculated
    /\ Len(state.raw_input.claimed_coefficients) = 2
    /\ state.raw_input.claimed_coefficients[1].value = FromInt(15)
    /\ Len(Applied) = 2
    /\ Len(state.reference_data.valid_coefficients) = 1
    /\ state.audit_verdict.calculation_breakdown # NoneRecord

----------------------------------------------------------------------------
(* tools/db_search.py: _find_section, query by query, while tables are     *)
(* inserted.  The frame of the lookup in progress is kept in locals.       *)

\* Lines 157-173 of _find_section: the table data of the document the
\* queries settled on, or the error raised.
table_data_of(result, table_code) ==
    IF result = NoneRecord
    THEN Raised("AttributeError", [text |-> "'NoneType' object has no attribute 'get'"])
    ELSE IF Len(result.positions) = 0
    THEN Raised("ValueError",
                [text |-> "Table has no configured positions",
                 table_code |-> table_code])
    ELSE Returned([code |-> table_code,
                   name_ru |-> result.name_ru,
                   rows |-> result.positions,
                   table |-> result])

\* The codes and years a lookup is started with.
LookupCodes == {"T-7", "T-9"}
LookupYears == {2022, 2023, 2025}

\* The frame of _find_section(table_code, year) at its first query.  began
\* and seen record the documents of the code stored when the lookup began
\* and when the fallback query ran.
FindSectionFrame(table_code, year) ==
    [pc |-> "find_one", table_code |-> table_code, year |-> year,
     result |-> NoneRecord, missed |-> FALSE, available_years |-> <<>>,
     latest_year |-> 0, began |-> with_code(tables, table_code), seen |-> {}]

InitConcurrent ==
    /\ tables = {}
    /\ state = NewRowState("row-1")
    /\ lookup = NoneRecord
    /\ locals = NoneRecord
    /\ outcome = NoOutcome
    /\ fuzz = TRUE
    /\ ocr = NoneRecord

\* A table document is inserted, at any moment, one per code and year.
InsertConcurrently ==
    /\ \E t \in TableDocs :
        /\ find_one(tables, t.table_code, t.year) = NoneRecord
        /\ tables' = tables \cup {t}
    /\ UNCHANGED <<state, lookup, locals, outcome, fuzz, ocr>>

\* _find_section(table_code, year) is entered.
BeginLookup ==
    /\ locals = NoneRecord
    /\ \E table_code \in LookupCodes, year \in LookupYears :
           locals' = FindSectionFrame(table_code, year)
    /\ UNCHANGED <<tables, state, lookup, outcome, fuzz, ocr>>

\* result = find_one({"table_code": table_code, "year": year})
QueryRequestedYear ==
    /\ locals # NoneRecord
    /\ locals.pc = "find_one"
    /\ \E result \in {find_one(tables, locals.table_code, locals.year)} :
           locals' = [locals EXCEPT
                          !.result = result,
                          !.missed = (result = NoneRecord),
                          !.pc = IF result = NoneRecord
                                 THEN "find_years" ELSE "found"]
    /\ UNCHANGED <<tables, state, lookup, outcome, fuzz, ocr>>

\* available_years of find(...).sort("year", -1).limit(5); latest_year is
\* their max, and with none the not-found error is raised.
QueryAvailableYears ==
    /\ locals # NoneRecord
    /\ locals.pc = "find_years"
    /\ \E years \in {years_descending(with_code(tables, locals.table_code), 5)} :
           IF Len(years) > 0
           THEN /\ locals' = [locals EXCEPT
                                  !.available_years = years,
                                  !.latest_year = max_year(years),
                                  !.seen = with_code(tables, locals.table_code),
                                  !.pc = "find_latest"]
                /\ UNCHANGED <<lookup, outcome>>
           ELSE /\ locals' = [locals EXCEPT !.pc = "done"]
                /\ lookup' = [table |-> NoneRecord, row |-> NoneRecord]
                /\ outcome' = [op |-> "find_section", raised |-> TRUE,
                               kind |-> "ValueError",
                               message |->
                                   [text |-> "No table found in SCP reference for code",
                                    table_code |-> locals.table_code]]
    /\ UNCHANGED <<tables, state, fuzz, ocr>>

\* result = find_one({"table_code": table_code, "year": latest_year})
QueryLatestYear ==
    /\ locals # NoneRecord
    /\ locals.pc = "find_latest"
    /\ locals' = [locals EXCEPT
                      !.result = find_one(tables, locals.table_code,
                                          locals.latest_year),
                      !.pc = "found"]
    /\ UNCHANGED <<tables, state, lookup, outcome, fuzz, ocr>>

\* The rest of _find_section: the table data is returned, or the error of
\* a document without positions is raised.
ReturnSection ==
    /\ locals # NoneRecord
    /\ locals.pc = "found"
    /\ \E r \in {table_data_of(locals.result, locals.table_code)} :
        /\ lookup' = [table |-> IF r.raised THEN NoneRecord ELSE r.value.table,
                      row |-> NoneRecord]
        /\ outcome' = [op |-> "find_section", raised |-> r.raised,
                       kind |-> IF r.raised THEN r.kind ELSE "",
                       message |-> IF r.raised THEN r.message ELSE [text |-> ""]]
    /\ locals' = [locals EXCEPT !.pc = "done"]
    /\ UNCHANGED <<tables, state, fuzz, ocr>>

NextConcurrent ==
    \/ InsertConcurrently
    \/ BeginLookup
    \/ QueryRequestedYear
    \/ QueryAvailableYears
    \/ QueryLatestYear
    \/ ReturnSection

SpecConcurrent == InitConcurrent /\ [][NextConcurrent]_vars

----------------------------------------------------------------------------
(* Claims on the lookup under concurrent inserts.                          *)

\* A lookup that missed on (code, year) has ended.
FallbackEnded ==
    /\ locals # NoneRecord
    /\ locals.pc = "done"
    /\ locals.missed

\* The documents, among those the fallback query saw, of the latest year.
LatestSeen == {t \in locals.seen : \A u \in locals.seen : u.year <= t.year}

FailedNotFound ==
    /\ outcome.raised
    /\ outcome.message.text = "No table found in SCP reference for code"

\* C27 as stated: a lookup that misses on (code, year) while tables are
\* inserted returns a table of the requested code whose year was the latest
\* stored for the code when the fallback query ran, and does not fail with
\* not-found when the code had a table as the lookup began.
C27_Original ==
    FallbackEnded =>
        /\ locals.began # {} => ~FailedNotFound
        /\ locals.seen # {} =>
               /\ ~outcome.raised
               /\ lookup.table \in LatestSeen
               /\ lookup.table.table_code = locals.table_code

\* C27, amended: such a lookup settles on the stored document of the
\* requested code whose year was the latest for the code when the fallback
\* query ran; it returns that document whole when it has positions and
\* fails with the no-positions error when it has none.  It fails with
\* not-found only when the fallback query saw no document of the code, and
\* then the code had none as the lookup began.
C27_FallbackSettlesOnLatestSeen ==
    FallbackEnded =>
        /\ locals.began \subseteq locals.seen \/ locals.seen = {}
        /\ FailedNotFound <=> locals.seen = {}
        /\ FailedNotFound => locals.began = {}
        /\ locals.seen # {} =>
               /\ locals.result \in LatestSeen
               /\ locals.result \in tables
               /\ locals.result \in TableDocs
               /\ locals.result.table_code = locals.table_code
               /\ IF locals.result.positions = <<>>
                  THEN /\ outcome.raised
                       /\ outcome.message.text = "Table has no configured positions"
                       /\ lookup.table = NoneRecord
                  ELSE /\ ~outcome.raised
                       /\ lookup.table = locals.result

\* A lookup of T-7 for 2025 began when only the edition of 2022 was stored;
\* the edition of 2024 was inserted before the fallback query and that of
\* 2023 after it: the edition of 2024 is returned.
C27_Witness ==
    /\ FallbackEnded
    /\ locals.table_code = "T-7"
    /\ locals.year = 2025
    /\ {t.year : t \in locals.began} = {2022}
    /\ {t.year : t \in locals.seen} = {2022, 2024}
    /\ {t.year : t \in with_code(tables, "T-7")} = {2022, 2023, 2024}
    /\ ~outcome.raised
    /\ lookup.table.year = 2024

----------------------------------------------------------------------------
(* ocr_service/vlm_ocr.py: VLMOCR.process_batch.  Every page is a task;    *)
(* a task is at the semaphore ("waiting"), in an API call ("calling"),     *)
(* asleep between two attempts ("backoff") or has returned ("done").       *)

MaxPages == 2

\* OCR_MAX_CONCURRENCY and OCR_MAX_RETRIES as read by int(os.getenv(...)).
ConcurrencyLimits == {0, 1, 2}
RetryLimits == {0, 1, 2}

\* The exceptions an API call ends with.
ApiErrors ==
    {<<"APITimeoutError", ": ", "Request timed out.">>,
     <<"RuntimeError", ": ", "API returned empty choices list">>}

OCRPageInput(filename, page_number) ==
    [filename |-> filename, page_number |-> page_number]

\* The batches: up to MaxPages pages of one document, in any order.
PageBatches ==
    UNION {[1..n -> {OCRPageInput("doc.pdf", k) : k \in 1..MaxPages}] : n \in 0..MaxPages}

OCRPageResult(page, extracted_text, success, error) ==
    [filename |-> page.filename, page_number |-> page.page_number,
     extracted_text |-> extracted_text, success |-> success, error |-> error]

OCRBatchResult(results) ==
    LET successful_count == Cardinality({i \in DOMAIN results : results[i].success})
    IN  [total_pages |-> Len(results),
         successful_pages |-> successful_count,
         failed_pages |-> Len(results) - successful_count,
         results |-> results]

\* tenacity's stop_after_attempt(max_attempt_number), asked after a failed
\* attempt with the number of attempts made.
stop_after_attempt_exceeded(max_attempt_number, attempt_number) ==
    attempt_number > max_attempt_number

stop_after_attempt(max_attempt_number, attempt_number) ==
    attempt_number >= max_attempt_number

\* asyncio.Semaphore: no permit is left.
semaphore_never_locked(value) == FALSE

semaphore_locked(value) == value = 0

\* VLMOCR(): the limits are read and the semaphore is made.
InitOCR ==
    /\ tables = {}
    /\ state = NewRowState("row-1")
    /\ lookup = NoneRecord
    /\ locals = NoneRecord
    /\ outcome = NoOutcome
    /\ fuzz = TRUE
    /\ \E max_concurrency \in ConcurrencyLimits, max_retries \in RetryLimits :
           ocr = [max_concurrency |-> max_concurrency,
                  max_retries |-> max_retries,
                  semaphore |-> max_concurrency,
                  phase |-> "idle",
                  pages |-> <<>>, pc |-> <<>>, attempts |-> <<>>,
                  results |-> <<>>, batch |-> NoneRecord]

\* process_batch(pages): an empty batch returns at once; else one task per
\* page is made and gathered.
ProcessBatch ==
    /\ ocr.phase = "idle"
    /\ \E pages \in PageBatches :
           IF Len(pages) = 0
           THEN ocr' = [ocr EXCEPT !.phase = "returned",
                                   !.batch = [total_pages |-> 0,
                                              successful_pages |-> 0,
                                              failed_pages |-> 0,
                                              results |-> <<>>]]
           ELSE ocr' = [ocr EXCEPT !.phase = "gathering",
                                   !.pages = pages,
                                   !.pc = [i \in DOMAIN pages |-> "waiting"],
                                   !.attempts = [i \in DOMAIN pages |-> 0],
                                   !.results = [i \in DOMAIN pages |-> NoneRecord]]
    /\ UNCHANGED <<tables, state, lookup, locals, outcome, fuzz>>

\* async with self._semaphore: the task waiting longest takes a permit.
Acquire(i) ==
    /\ ocr.phase = "gathering"
    /\ i \in DOMAIN ocr.pages
    /\ ocr.pc[i] = "waiting"
    /\ \A j \in 1..(i - 1) : ocr.pc[j] # "waiting"
    /\ ~semaphore_locked(ocr.semaphore)
    /\ ocr' = [ocr EXCEPT !.semaphore = @ - 1, !.pc[i] = "calling"]
    /\ UNCHANGED <<tables, state, lookup, locals, outcome, fuzz>>

\* An attempt returns the text: the page's result is made and the permit
\* is given back.
CallSucceeds(i) ==
    /\ ocr.phase = "gathering"
    /\ i \in DOMAIN ocr.pages
    /\ ocr.pc[i] = "calling"
    /\ ocr' = [ocr EXCEPT
                   !.attempts[i] = @ + 1,
                   !.results[i] = OCRPageResult(ocr.pages[i], <<"text">>, TRUE, NoneStr),
                   !.semaphore = @ + 1,
                   !.pc[i] = "done"]
    /\ UNCHANGED <<tables, state, lookup, locals, outcome, fuzz>>

\* An attempt raises: when stop_after_attempt says so the exception is
\* reraised, caught and made the page's result, and the permit is given
\* back; else the task sleeps, still holding the permit.
CallFails(i) ==
    /\ ocr.phase = "gathering"
    /\ i \in DOMAIN ocr.pages
    /\ ocr.pc[i] = "calling"
    /\ \E e \in ApiErrors :
           IF stop_after_attempt(ocr.max_retries, ocr.attempts[i] + 1)
           THEN ocr' = [ocr EXCEPT
                            !.attempts[i] = @ + 1,
                            !.results[i] = OCRPageResult(ocr.pages[i], NoneStr, FALSE, e),
                            !.semaphore = @ + 1,
                            !.pc[i] = "done"]
           ELSE ocr' = [ocr EXCEPT !.attempts[i] = @ + 1, !.pc[i] = "backoff"]
    /\ UNCHANGED <<tables, state, lookup, locals, outcome, fuzz>>

\* The wait between two attempts is over.
BackoffEnds(i) ==
    /\ ocr.phase = "gathering"
    /\ i \in DOMAIN ocr.pages
    /\ ocr.pc[i] = "backoff"
    /\ ocr' = [ocr EXCEPT !.pc[i] = "calling"]
    /\ UNCHANGED <<tables, state, lookup, locals, outcome, fuzz>>

\* asyncio.gather returns the results in the order of the tasks and the
\* batch result is built.
ReturnBatch ==
    /\ ocr.phase = "gathering"
    /\ \A i \in DOMAIN ocr.pages : ocr.pc[i] = "done"
    /\ ocr' = [ocr EXCEPT !.phase = "returned",
                          !.batch = OCRBatchResult(ocr.results)]
    /\ UNCHANGED <<tables, state, lookup, locals, outcome, fuzz>>

NextOCR ==
    \/ ProcessBatch
    \/ \E i \in 1..MaxPages : Acquire(i)
    \/ \E i \in 1..MaxPages : CallSucceeds(i)
    \/ \E i \in 1..MaxPages : CallFails(i)
    \/ \E i \in 1..MaxPages : BackoffEnds(i)
    \/ ReturnBatch

SpecOCR == InitOCR /\ [][NextOCR]_vars

\* The event loop runs every task that can run; an API call ends, with
\* the text or with the exception of the client's timeout; a sleep ends.
FairOCR ==
    /\ WF_vars(ReturnBatch)
    /\ \A i \in 1..MaxPages :
           /\ WF_vars(Acquire(i))
           /\ WF_vars(CallSucceeds(i) \/ CallFails(i))
           /\ WF_vars(BackoffEnds(i))

SpecOCRFair == SpecOCR /\ FairOCR

----------------------------------------------------------------------------
(* Claims on the OCR batch.                                                *)

\* The pages inside the API call section: calling, or asleep between two
\* attempts.
InsideSection == {i \in DOMAIN ocr.pc : ocr.pc[i] \in {"calling", "backoff"}}

Gathering == ocr.phase = "gathering"

\* C28 as stated: the pages inside the API call section, retries and
\* back-off waits included, never outnumber max_concurrency, and every
\* page of a batch eventually takes the semaphore and completes.
C28_Original ==
    /\ [](Cardinality(InsideSection) <= ocr.max_concurrency)
    /\ \A i \in 1..MaxPages :
           (Gathering /\ i \in DOMAIN ocr.pages)
               ~> (i \in DOMAIN ocr.pc /\ ocr.pc[i] = "done")

\* C28, amended: the pages inside the API call section never outnumber
\* max_concurrency; when max_concurrency is at least 1 every page of a
\* batch eventually completes; when it is 0 no page ever takes the
\* semaphore and the batch never returns.
C28_BoundedAndCompletesWhenPositive ==
    /\ [](Cardinality(InsideSection) <= ocr.max_concurrency)
    /\ \A i \in 1..MaxPages :
           (Gathering /\ i \in DOMAIN ocr.pages /\ ocr.max_concurrency >= 1)
               ~> (/\ i \in DOMAIN ocr.pc
                   /\ ocr.pc[i] = "done"
                   /\ ocr.results[i] # NoneRecord)
    /\ [](Gathering /\ ocr.max_concurrency = 0 =>
              \A i \in DOMAIN ocr.pages : ocr.pc[i] = "waiting")

\* With one permit, the first page sleeps between two attempts, holding
\* it, while the second page waits at the semaphore.
C28_Witness ==
    /\ Gathering
    /\ ocr.max_concurrency = 1
    /\ Len(ocr.pages) = 2
    /\ ocr.pc = <<"backoff", "waiting">>
    /\ ocr.attempts[1] = 1
    /\ ocr.semaphore = 0

\* What process_batch returned is one result per input page, in input
\* order, with counts that add up to the number of input pages.
BatchMatchesPages ==
    ocr.phase = "returned" =>
        /\ ocr.batch.total_pages = Len(ocr.pages)
        /\ Len(ocr.batch.results) = Len(ocr.pages)
        /\ \A i \in DOMAIN ocr.pages :
               /\ ocr.batch.results[i].filename = ocr.pages[i].filename
               /\ ocr.batch.results[i].page_number = ocr.pages[i].page_number
        /\ ocr.batch.successful_pages
               = Cardinality({i \in DOMAIN ocr.pages : ocr.batch.results[i].success})
        /\ ocr.batch.failed_pages
               = Cardinality({i \in DOMAIN ocr.pages : ~ocr.batch.results[i].success})
        /\ ocr.batch.successful_pages + ocr.batch.failed_pages = ocr.batch.total_pages

\* A page that is done has a result: text and no error, or success=False
\* with an error text and no text, after `limit` failed attempts.
PageResultsWhole(limit) ==
    \A i \in DOMAIN ocr.pages :
        ocr.pc[i] = "done" =>
            /\ ocr.results[i] # NoneRecord
            /\ IF ocr.results[i].success
               THEN /\ ocr.results[i].error = NoneStr
                    /\ ocr.results[i].extracted_text # NoneStr
               ELSE /\ ocr.results[i].error \in ApiErrors
                    /\ ocr.results[i].extracted_text = NoneStr
                    /\ ocr.attempts[i] = limit

\* C29 as stated: a page's API call is attempted at most max_retries
\* times; a page whose attempts all fail yields a result with
\* success=False and an error text; process_batch returns one result per
\* input page, in input order, and the counts add up.
C29_Original ==
    /\ \A i \in DOMAIN ocr.pages : ocr.attempts[i] <= ocr.max_retries
    /\ PageResultsWhole(ocr.max_retries)
    /\ BatchMatchesPages

\* The attempts tenacity makes under stop_after_attempt(max_retries): the
\* first attempt is made whatever the limit.
AttemptLimit == IF ocr.max_retries >= 1 THEN ocr.max_retries ELSE 1

\* C29, amended: a page's API call is attempted at most max_retries
\* times, and once when max_retries is 0; a page whose attempts all fail
\* yields a result with success=False and an error text; process_batch
\* returns one result per input page, in input order, and the counts add
\* up.
C29_AttemptsBoundedAndBatchWhole ==
    /\ \A i \in DOMAIN ocr.pages : ocr.attempts[i] <= AttemptLimit
    /\ PageResultsWhole(AttemptLimit)
    /\ BatchMatchesPages

\* A batch of page 2 then page 1 with max_retries = 2: the first task
\* failed twice and the second succeeded; the batch reports one of each,
\* page 2 first.
C29_Witness ==
    /\ ocr.phase = "returned"
    /\ ocr.max_retries = 2
    /\ Len(ocr.pages) = 2
    /\ ocr.pages[1].page_number = 2
    /\ ocr.attempts = <<2, 1>>
    /\ ocr.batch.results[1].page_number = 2
    /\ ~ocr.batch.results[1].success
    /\ ocr.batch.results[2].success
    /\ ocr.batch.successful_pages = 1
    /\ ocr.batch.failed_pages = 1
    /\ ocr.batch.total_pages = 2

----------------------------------------------------------------------------
(* The tolerance argument.                                                 *)

\* Values of the tolerance argument, those the rows are calculated with
\* among them.
ToleranceValues == Tolerances \cup {FromInt(0), FromInt(1000)}

====
